---- MODULE Spec2Model ----
(***************************************************************************)
(* A model of audio-transcode-watcher: the reconciliation scanner          *)
(* (sync.initial_sync), the per-source pipeline (sync.process_source_file),*)
(* the atomic encoder (encoder.atomic_ffmpeg_encode), the event handlers   *)
(* (watcher.AudioSyncHandler) and the external actors that change the      *)
(* source and output directories.                                          *)
(*                                                                         *)
(* A file name is a sequence of its dot-separated parts: X.flac is         *)
(* <<"X","flac">>, the hidden file .hid is <<"","hid">>, the temp file     *)
(* X.m4a.tmp__ff is <<"X","m4a","tmp__ff">>.  The source directory is flat,*)
(* so a source path is a name in the source directory.                     *)
(***************************************************************************)
EXTENDS Integers, Sequences, FiniteSets, TLC

----------------------------------------------------------------------------
(* Bounds *)

\* worker threads of the scanner's pool (config.parallel_workers)
NumWorkers == 1

\* threads on which event handlers run
NumHandlers == 2

\* changes the external actors may make in one behaviour
MaxEnv == 1

\* scanner passes in one behaviour
MaxPass == 2

\* highest content version of a source file
MaxVer == 2

\* at most this many encoder calls fail for a reason the model does not
\* derive from the filesystem (a bad input, a full disk, a failed rename)
MaxFaults == 1

\* the count of the external encoder's invocations in one call of
\* atomic_ffmpeg_encode stops at this number
MaxRuns == 3

\* wait_for_stable: time is counted in polling intervals (time.sleep(0.2));
\* the largest timeout, the largest min_stable_secs, the largest file size
\* and the longest time one sleep may take
MaxTimeout == 3

MaxMinStable == 2

MaxSize == 3

MaxNap == 2

\* the options of a command handed to _remove_artwork_from_command, the
\* executable and the output path apart
MaxOptions == 3

----------------------------------------------------------------------------
(* utils.py: extensions and names *)

LOSSLESS_EXTENSIONS == {"flac", "alac", "wav", "ape", "aiff", "wv", "tta", "ogg", "opus"}

LOSSY_EXTENSIONS == {"mp3", "aac", "m4a"}

AUDIO_EXTENSIONS == LOSSLESS_EXTENSIONS \cup LOSSY_EXTENSIONS \cup {"mp3"}

SIDECAR_EXTENSIONS == {"lrc"}

TEMP_SUFFIX == "tmp__ff"

\* str.lower() on the name parts that occur in the model
Lower(s) ==
    CASE s = "FLAC" -> "flac"
      [] s = "MP3" -> "mp3"
      [] s = "M4A" -> "m4a"
      [] s = "LRC" -> "lrc"
      [] s = "VipsJpeg" -> "vipsjpeg"
      [] OTHER -> s

\* unicodedata.normalize("NFC", s): "Xd" is the decomposed spelling of "X"
nfc(s) ==
    IF s = "Xd" THEN "X" ELSE s

\* nfc_path on a path inside a directory: every component is normalized
nfc_path(n) ==
    [i \in DOMAIN n |-> nfc(n[i])]

NoName == <<>>

\* Path(name).suffix, without the dot; "" when the name has no suffix
PathSuffix(n) ==
    IF Len(n) <= 1 \/ (Len(n) = 2 /\ n[1] = "") THEN "" ELSE n[Len(n)]

\* Path(name).stem
PathStem(n) ==
    IF PathSuffix(n) = "" THEN n ELSE SubSeq(n, 1, Len(n) - 1)

\* f"{stem}{extension}"
WithExt(stem, ext) ==
    Append(stem, ext)

\* entry.name.startswith(".")
StartsWithDot(n) ==
    Len(n) >= 2 /\ n[1] = ""

\* name.endswith("." + ext), case-sensitive
EndsWith(n, ext) ==
    Len(n) >= 2 /\ n[Len(n)] = ext

is_mp3(n) ==
    Lower(PathSuffix(n)) = "mp3"

has_audio_extension(n) ==
    Lower(PathSuffix(nfc_path(n))) \in AUDIO_EXTENSIONS

has_sidecar_extension(n) ==
    Lower(PathSuffix(nfc_path(n))) \in SIDECAR_EXTENSIONS

get_output_filename(n, ext) ==
    WithExt(nfc_path(PathStem(n)), ext)

----------------------------------------------------------------------------
(* config.py *)

CODEC_EXTENSIONS ==
    [alac |-> "m4a", aac |-> "m4a", mp3 |-> "mp3", opus |-> "opus", flac |-> "flac", wav |-> "wav"]

ARTWORK_SUPPORTED_CODECS == {"alac", "aac", "mp3", "flac"}

\* config.outputs: a lossless-mirror target and a lossy target
Outputs ==
    << [name |-> "alac", codec |-> "alac", include_artwork |-> TRUE],
       [name |-> "mp3-256", codec |-> "mp3", include_artwork |-> TRUE] >>

OutIdx == 1..Len(Outputs)

Extension(o) ==
    CODEC_EXTENSIONS[Outputs[o].codec]

\* the Config dataclass declares no fetch_lyrics field
ConfigHasFetchLyrics == FALSE

----------------------------------------------------------------------------
(* The filesystem.  A directory is [st, files]: st is "rw", "ro" (listing   *)
(* and reading work, writing and removing fail), "noaccess" (every access  *)
(* fails) or "missing"; files maps each name present to its content.        *)
(* A source file's content is its version; an output file's content is a   *)
(* record [kind, from, ver].                                                *)

DirStatus == {"rw", "ro", "noaccess", "missing"}

NoFiles == [n \in {} |-> 0]

EmptyDir == [st |-> "rw", files |-> NoFiles]

Names(d) == DOMAIN d.files

\* os.path.isdir
IsDir(d) == d.st # "missing"

\* os.scandir succeeds
CanList(d) == d.st \in {"rw", "ro"}

\* os.path.exists / os.path.isfile of a name in the directory
Exists(d, n) == d.st \in {"rw", "ro"} /\ n \in Names(d)

\* creating, replacing and removing entries works
CanWrite(d) == d.st = "rw"

Put(d, n, c) ==
    [d EXCEPT !.files = [m \in Names(d) \cup {n} |-> IF m = n THEN c ELSE d.files[m]]]

Del(d, n) ==
    [d EXCEPT !.files = [m \in Names(d) \ {n} |-> d.files[m]]]

DelAll(d, S) ==
    [d EXCEPT !.files = [m \in Names(d) \ S |-> d.files[m]]]

\* os.makedirs(path, exist_ok=True)
Makedirs(d) ==
    IF d.st = "missing" THEN EmptyDir ELSE d

\* os.remove inside try/except: removes when it can, otherwise no effect
TryRemove(d, n) ==
    IF CanWrite(d) /\ n \in Names(d) THEN Del(d, n) ELSE d

\* if os.path.exists(path): os.remove(path), inside try/except
RemoveIfExists(d, n) ==
    IF Exists(d, n) THEN TryRemove(d, n) ELSE d

Content(kind, from, ver) == [kind |-> kind, from |-> from, ver |-> ver]

XFlac == <<"X", "flac">>

\* what an interrupted encode of X.flac left behind
StalePartial == Content("partial", XFlac, 0)

appears_empty_dir(d) ==
    IF ~IsDir(d) THEN TRUE
    ELSE IF ~CanList(d) THEN TRUE
    ELSE ~\E n \in Names(d) : ~StartsWithDot(n)

----------------------------------------------------------------------------
(* State *)

VARIABLES
    cfg,          \* [allow, force]: allow_initial_bulk_encode, force_reencode;
                  \* while main starts up, also what load_config finds
    src,          \* the source directory
    outs,         \* outs[o]: the directory of output target o
    in_progress,  \* sync._in_progress
    pipe,         \* pipe[p]: the thread p that runs pipelines and handlers
    scan,         \* the thread that runs initial_sync
    evq,          \* events raised by the notification mechanism, not yet dispatched
    envLeft,      \* changes the external actors may still make
    faults,       \* the number of encoder calls in which the encoder or the rename failed
    encs          \* encs[o]: calls of atomic_ffmpeg_encode for target o, and
                  \* how many of them renamed their output over the destination

vars == <<cfg, src, outs, in_progress, pipe, scan, evq, envLeft, faults, encs>>

NoEncs == [o \in OutIdx |-> [calls |-> 0, ok |-> 0]]

Workers == {"w"} \X (1..NumWorkers)

Handlers == {"h"} \X (1..NumHandlers)

Pipes == Workers \cup Handlers

\* the arguments and locals of a call of wait_for_stable, the clock the
\* thread reads with time.time(), and obs, the sizes it has read so far with
\* the times of the reads
NoWait ==
    [pc |-> "none", min |-> 0, timeout |-> 0, now |-> 0, start |-> 0,
     last_size |-> 0, last_change |-> 0, ret |-> FALSE, obs |-> <<>>]

IdlePipe ==
    [pc |-> "idle", ev |-> "none", path |-> NoName, to |-> NoName, old |-> NoName,
     force |-> FALSE, stable |-> FALSE, oi |-> 0, dst |-> NoName,
     pre |-> {}, rc |-> 0, err |-> "", retried |-> FALSE, run |-> FALSE,
     raised |-> FALSE, skipped |-> FALSE, runs |-> 0, cmd |-> <<>>,
     waited |-> "none", wait |-> NoWait, clear |-> FALSE]

IdleScan ==
    [pc |-> "idle", pass |-> 0, files |-> {}, lossless |-> {}, pending |-> {},
     oi |-> 0, blocked |-> FALSE, quiet |-> TRUE, handled |-> FALSE,
     main |-> "running", status |-> 0]

\* clear: since the thread took up its event or its file, it has evaluated
\* safety_guard_active and found the guard inactive

\* a thread that has returned keeps nothing of the call but its outcome
AtRest(r) ==
    IF r.pc \in {"idle", "dead"}
    THEN [IdlePipe EXCEPT !.pc = r.pc, !.raised = r.raised, !.skipped = r.skipped]
    ELSE r

\* the pipeline section of process_source_file: from the add to _in_progress
\* (line 118) to the discard in the finally clause (line 131)
PipelinePcs == {"po", "enc_prep", "enc_run", "enc_wait", "enc_exit", "enc_ret", "after", "finally"}

InPipeline(p) == pipe[p].pc \in PipelinePcs

----------------------------------------------------------------------------
(* sync.py: the safety guard and the resolver's tests *)

\* a slip: the flag is consulted before the source
Guard_FlagFirst ==
    IF cfg.allow THEN FALSE
    ELSE appears_empty_dir(src) \/ \E o \in OutIdx : appears_empty_dir(outs[o])

\* a slip: the outputs are never consulted
Guard_SourceOnly == appears_empty_dir(src)

\* lines 42-79
safety_guard_active ==
    IF appears_empty_dir(src) THEN TRUE
    ELSE IF cfg.allow THEN FALSE
    ELSE \E o \in OutIdx : appears_empty_dir(outs[o])

is_audio_file(n) ==
    Exists(src, nfc_path(n)) /\ Lower(PathSuffix(nfc_path(n))) \in AUDIO_EXTENSIONS

_has_lossless_source(n) ==
    \E ext \in LOSSLESS_EXTENSIONS :
        /\ Exists(src, WithExt(PathStem(n), ext))
        /\ WithExt(PathStem(n), ext) # n

\* the destination of source n in target o, as _process_outputs computes it
OutName(n, o) ==
    IF is_mp3(n) /\ Outputs[o].codec = "alac"
    THEN nfc_path(n)
    ELSE get_output_filename(n, Extension(o))

TmpName(dst) == Append(dst, TEMP_SUFFIX)

----------------------------------------------------------------------------
(* encoder.py: atomic_ffmpeg_encode, run by thread p for source pipe[p].path *)
(* and destination pipe[p].dst in target pipe[p].oi                         *)

\* the diagnostic output of a failed encode: none of the signatures, one of
\* the lower-case ones ("decode" is in the message of any decoding error,
\* of an audio stream too), or only "VipsJpeg"
StderrKinds == {"", "decode", "VipsJpeg"}

artwork_error_hints == {"vf#", "vist#", "VipsJpeg", "png", "mjpeg", "decode"}

\* any(h in stderr.lower() for h in artwork_error_hints)
HintMatch(stderr) ==
    \E h \in artwork_error_hints : Lower(stderr) = h

DEFAULT_BITRATES == [aac |-> "256k", mp3 |-> "256k", opus |-> "128k"]

\* the arguments that stand for the source path, the destination path and
\* the temp path in a command
SourceArg == "<source>"

DestArg == "<dest>"

TmpArg == "<tmp_dest>"

\* lines 15-88: the command for one target, from its OutputConfig
build_ffmpeg_command(c) ==
    LET art == c.include_artwork
        common == <<"ffmpeg", "-loglevel", "error", "-y", "-i", SourceArg, "-map", "0:a:0">>
                     \o (IF art THEN <<"-map", "0:v:0?">> ELSE <<>>)
                     \o <<"-map_metadata", "0">>
        codec ==
            CASE c.codec = "alac" ->
                    <<"-c:a", "alac">> \o (IF art THEN <<"-c:v", "copy">> ELSE <<>>)
                       \o <<"-movflags", "+faststart", "-f", "mp4">>
              [] c.codec = "aac" ->
                    <<"-c:a", "aac", "-b:a", DEFAULT_BITRATES.aac>>
                       \o (IF art THEN <<"-c:v", "copy">> ELSE <<>>)
                       \o <<"-movflags", "+faststart", "-f", "mp4">>
              [] c.codec = "mp3" ->
                    <<"-c:a", "libmp3lame", "-b:a", DEFAULT_BITRATES.mp3>>
                       \o (IF art THEN <<"-c:v", "mjpeg">> ELSE <<>>)
                       \o <<"-id3v2_version", "3", "-write_id3v2", "1", "-f", "mp3">>
              [] c.codec = "opus" ->
                    <<"-c:a", "libopus", "-b:a", DEFAULT_BITRATES.opus, "-f", "opus">>
              [] c.codec = "flac" ->
                    <<"-c:a", "flac">> \o (IF art THEN <<"-c:v", "copy">> ELSE <<>>)
                       \o <<"-f", "flac">>
              [] OTHER -> <<"-c:a", "pcm_s16le", "-f", "wav">>
    IN  common \o codec \o <<DestArg>>

\* arg.startswith("-vf"), line 114: of the arguments a command is made of
\* here, the filter option -vf and the frame count option -vframes
StartsWithVf(arg) == arg \in {"-vf", "-vframes"}

RECURSIVE RemoveFrom(_, _)
\* the loop of lines 100-119, from index i on
RemoveFrom(cmd, i) ==
    IF i > Len(cmd) THEN <<>>
    ELSE IF cmd[i] = "-map" /\ i + 1 <= Len(cmd) /\ cmd[i + 1] = "0:v:0?"
    THEN RemoveFrom(cmd, i + 2)
    ELSE IF cmd[i] = "-c:v" THEN RemoveFrom(cmd, i + 2)
    ELSE IF StartsWithVf(cmd[i]) THEN RemoveFrom(cmd, i + 2)
    ELSE <<cmd[i]>> \o RemoveFrom(cmd, i + 1)

\* lines 91-121
_remove_artwork_from_command(cmd) == RemoveFrom(cmd, 1)

\* cmd[-1] = tmp_dest
WithLast(cmd, a) ==
    IF cmd = <<>> THEN cmd ELSE [cmd EXCEPT ![Len(cmd)] = a]

\* a slip: the command keeps the final destination as its output path
EncoderTarget_Direct(dst) == dst

\* the path the encoder is told to write: cmd[-1] = tmp_dest
EncoderTarget(dst) == TmpName(dst)

\* a slip: the temp file is left where it is
CleanupTemp_Skip(d, n) == d

\* _cleanup_temp, and the stale-temp removal of lines 147-151
_cleanup_temp(d, n) ==
    RemoveIfExists(d, n)

\* lines 140-151: create the directory, remove a stale temp file
EncPrep(p) ==
    LET o == pipe[p].oi
        tmp == TmpName(pipe[p].dst)
    IN  /\ pipe[p].pc = "enc_prep"
        /\ outs' = [outs EXCEPT ![o] = _cleanup_temp(Makedirs(outs[o]), tmp)]
        /\ encs' = [encs EXCEPT ![o].calls = @ + 1]
        /\ pipe' = [pipe EXCEPT ![p].pc = "enc_run", ![p].retried = FALSE,
                                ![p].runs = 0,
                                ![p].cmd = WithLast(@, TmpArg),
                                ![p].pre = IF pipe[p].dst \in Names(outs[o])
                                           THEN {outs[o].files[pipe[p].dst]} ELSE {}]
        /\ UNCHANGED <<cfg, src, in_progress, scan, evq, envLeft, faults>>

\* lines 158 and 184: the external encoder starts and opens its output
EncRun(p) ==
    LET o == pipe[p].oi
        n == pipe[p].path
        started == CanWrite(outs[o]) /\ Exists(src, n)
    IN  /\ pipe[p].pc = "enc_run"
        /\ outs' = [outs EXCEPT ![o] =
                      IF started
                      THEN Put(@, EncoderTarget(pipe[p].dst), Content("partial", n, src.files[n]))
                      ELSE @]
        /\ pipe' = [pipe EXCEPT ![p].pc = "enc_wait", ![p].run = started,
                                ![p].runs = IF @ < MaxRuns THEN @ + 1 ELSE @]
        /\ UNCHANGED <<cfg, src, in_progress, scan, evq, envLeft, faults, encs>>

\* an encoder run may be made to fail while the budget of failures lasts;
\* the retry's failure is not counted
MayFail(p) == pipe[p].retried \/ faults < MaxFaults

Failed(p) == IF pipe[p].retried \/ faults >= MaxFaults THEN faults ELSE faults + 1

\* the external encoder exits: with status 0 and a complete output, or with
\* a non-zero status, diagnostic output and whatever it had written.  The
\* file at the temp path is the one that was opened there last: when two
\* sources share a destination, it may be another encoder's
EncExit(p) ==
    LET o == pipe[p].oi
        out == EncoderTarget(pipe[p].dst)
    IN  /\ pipe[p].pc = "enc_wait"
        /\ \E good \in (IF pipe[p].run THEN BOOLEAN ELSE {FALSE}), e \in StderrKinds :
              /\ good => e = ""
              /\ (pipe[p].run /\ ~good) => MayFail(p)
              /\ outs' = [outs EXCEPT ![o] =
                            IF good /\ out \in Names(@) /\ CanWrite(@)
                            THEN Put(@, out, Content("enc", @.files[out].from, @.files[out].ver))
                            ELSE @]
              /\ pipe' = [pipe EXCEPT ![p].pc = "enc_exit",
                                      ![p].rc = IF good THEN 0 ELSE 1,
                                      ![p].err = e]
              /\ faults' = IF good THEN faults ELSE Failed(p)
        /\ UNCHANGED <<cfg, src, in_progress, scan, evq, envLeft, encs>>

\* a slip: a failed retry is retried
RetryWithoutArtwork_Again(retried, stderr) ==
    HintMatch(stderr)

\* lines 176-177: retry_without_artwork (True in every call) and a signature
\* in the diagnostic output; the retry's own failure is final
RetryWithoutArtwork(retried, stderr) ==
    ~retried /\ HintMatch(stderr)

\* os.replace(tmp_dest, final_dest)
Replace(d, tmp, dst) ==
    Del(Put(d, dst, d.files[tmp]), tmp)

\* lines 161-199 after an encoder run: rename on success, otherwise clean
\* up and either retry once without artwork or return the failure
EncSettle(p) ==
    LET o == pipe[p].oi
        dst == pipe[p].dst
        tmp == TmpName(dst)
        can == Exists(outs[o], tmp) /\ CanWrite(outs[o])
    IN  /\ pipe[p].pc = "enc_exit"
        /\ IF pipe[p].rc = 0
           THEN \E renamed \in (IF ~can THEN {FALSE} ELSE IF MayFail(p) THEN BOOLEAN ELSE {TRUE}) :
                  IF renamed
                  THEN /\ outs' = [outs EXCEPT ![o] = Replace(@, tmp, dst)]
                       /\ pipe' = [pipe EXCEPT ![p].pc = "enc_ret"]
                       /\ encs' = [encs EXCEPT ![o].ok = @ + 1]
                       /\ faults' = faults
                  ELSE /\ outs' = [outs EXCEPT ![o] = _cleanup_temp(@, tmp)]
                       /\ pipe' = [pipe EXCEPT ![p].pc = "enc_ret", ![p].rc = 1]
                       /\ encs' = encs
                       /\ faults' = Failed(p)
           ELSE /\ outs' = [outs EXCEPT ![o] = _cleanup_temp(@, tmp)]
                /\ UNCHANGED <<faults, encs>>
                /\ IF RetryWithoutArtwork(pipe[p].retried, pipe[p].err)
                   THEN pipe' = [pipe EXCEPT ![p].pc = "enc_run", ![p].retried = TRUE,
                                             ![p].cmd = WithLast(_remove_artwork_from_command(@), TmpArg)]
                   ELSE pipe' = [pipe EXCEPT ![p].pc = "enc_ret"]
        /\ UNCHANGED <<cfg, src, in_progress, scan, evq, envLeft>>

----------------------------------------------------------------------------
(* sync.py: process_source_file and _process_outputs, run by thread p *)

\* a slip: the membership test of line 116 is left out
AlreadyInProgress_Never(n) == FALSE

\* line 116: source_path in _in_progress
AlreadyInProgress(n) == n \in in_progress

\* a slip: the discard is skipped when processing raised
Release_UnlessRaised(n, raised) ==
    IF raised THEN in_progress ELSE in_progress \ {n}

\* lines 129-131: the finally clause
Release(n, raised) == in_progress \ {n}

\* wait_for_stable: false when the file cannot be read; otherwise it
\* stabilizes in time or the timeout elapses
StableOutcomes(n) ==
    IF Exists(src, n) THEN BOOLEAN ELSE {FALSE}

\* a slip: the time of the last change is not moved when the size changes
LastChange_Kept(changed, now, last_change) == last_change

\* utils.py, lines 131-133
LastChange(changed, now, last_change) ==
    IF changed THEN now ELSE last_change

Seen(w, size) == Append(w.obs, [t |-> w.now, size |-> size])

\* utils.py, lines 115-123: the first read of the size
WfsCall(p) ==
    LET n == nfc_path(pipe[p].path)
        w == pipe[p].wait
    IN  /\ w.pc = "call"
        /\ pipe' = [pipe EXCEPT ![p].wait =
                      IF Exists(src, n)
                      THEN [w EXCEPT !.pc = "loop", !.start = w.now,
                                     !.last_size = src.files[n],
                                     !.last_change = w.now,
                                     !.obs = Seen(w, src.files[n])]
                      ELSE [w EXCEPT !.pc = "done", !.start = w.now, !.ret = FALSE]]
        /\ UNCHANGED <<cfg, src, outs, in_progress, scan, evq, envLeft, faults, encs>>

\* utils.py, lines 125 and 139: the loop's condition
WfsLoop(p) ==
    LET w == pipe[p].wait
    IN  /\ w.pc = "loop"
        /\ pipe' = [pipe EXCEPT ![p].wait =
                      IF w.now - w.start < w.timeout
                      THEN [w EXCEPT !.pc = "poll"]
                      ELSE [w EXCEPT !.pc = "done", !.ret = FALSE]]
        /\ UNCHANGED <<cfg, src, outs, in_progress, scan, evq, envLeft, faults, encs>>

\* utils.py, lines 126-135: one read of the size and the comparison
WfsPoll(p) ==
    LET n == nfc_path(pipe[p].path)
        w == pipe[p].wait
    IN  /\ w.pc = "poll"
        /\ pipe' = [pipe EXCEPT ![p].wait =
                      IF ~Exists(src, n)
                      THEN [w EXCEPT !.pc = "done", !.ret = FALSE]
                      ELSE LET cur == src.files[n]
                               v == [w EXCEPT !.obs = Seen(w, cur),
                                              !.last_size = cur,
                                              !.last_change =
                                                  LastChange(cur # w.last_size, w.now, @)]
                           IN  IF cur # w.last_size THEN [v EXCEPT !.pc = "sleep"]
                               ELSE IF w.now - v.last_change >= w.min
                               THEN [v EXCEPT !.pc = "done", !.ret = TRUE]
                               ELSE [v EXCEPT !.pc = "sleep"]]
        /\ UNCHANGED <<cfg, src, outs, in_progress, scan, evq, envLeft, faults, encs>>

\* utils.py, line 137: time.sleep(0.2) takes one polling interval or more
WfsSleep(p) ==
    LET w == pipe[p].wait
    IN  /\ w.pc = "sleep"
        /\ \E d \in 1..MaxNap :
              pipe' = [pipe EXCEPT ![p].wait = [w EXCEPT !.pc = "loop", !.now = @ + d]]
        /\ UNCHANGED <<cfg, src, outs, in_progress, scan, evq, envLeft, faults, encs>>

\* the steps of a thread inside wait_for_stable
WaitForStable(p) ==
    \/ WfsCall(p)
    \/ WfsLoop(p)
    \/ WfsPoll(p)
    \/ WfsSleep(p)

\* a slip: the pipeline goes on whatever wait_for_stable returned
ProceedsWhenStable_Ignored(check_stable, stable) == TRUE

\* lines 106-112: check_stable and not wait_for_stable(...) returns
ProceedsWhenStable(check_stable, stable) == check_stable => stable

\* lines 97-112: normalize, is_audio_file, the guard, wait_for_stable;
\* waited records what wait_for_stable returned, "none" when it was not
\* called
PsfEnter(p) ==
    LET n == nfc_path(pipe[p].path)
        calls == is_audio_file(n) /\ ~safety_guard_active /\ pipe[p].stable
    IN  /\ pipe[p].pc = "enter"
        /\ \E stable \in StableOutcomes(n) :
              pipe' = [pipe EXCEPT ![p] = AtRest([@ EXCEPT
                         !.path = n,
                         !.waited = IF ~calls THEN "none"
                                    ELSE IF stable THEN "true" ELSE "false",
                         !.clear = @ \/ (is_audio_file(n) /\ ~safety_guard_active),
                         !.pc = IF /\ is_audio_file(n)
                                   /\ ~safety_guard_active
                                   /\ ProceedsWhenStable(pipe[p].stable, stable)
                                THEN "acquire" ELSE "idle"])]
        /\ UNCHANGED <<cfg, src, outs, in_progress, scan, evq, envLeft, faults, encs>>

\* lines 115-118: the test and the add under _in_progress_lock
PsfAcquire(p) ==
    /\ pipe[p].pc = "acquire"
    /\ IF AlreadyInProgress(pipe[p].path)
       THEN /\ pipe' = [pipe EXCEPT ![p] = AtRest([@ EXCEPT !.pc = "idle", !.skipped = TRUE])]
            /\ in_progress' = in_progress
       ELSE /\ pipe' = [pipe EXCEPT ![p].pc = "po", ![p].oi = 1]
            /\ in_progress' = in_progress \cup {pipe[p].path}
    /\ UNCHANGED <<cfg, src, outs, scan, evq, envLeft, faults, encs>>

\* shutil.copy2(source_path, out_path) inside try/except
Copy2(d, n, dst) ==
    IF Exists(src, n) /\ CanWrite(d)
    THEN Put(d, dst, Content("copy", n, src.files[n]))
    ELSE d

\* a slip: the artifact is produced whether or not it exists
NeedsOutput_Always(force, d, dst) == TRUE

\* a slip: a missing artifact is not produced
NeedsOutput_Never(force, d, dst) == force

\* lines 166 and 177: force or not os.path.exists(out_path)
NeedsOutput(force, d, dst) == force \/ ~Exists(d, dst)

\* lines 151-180: one iteration of the loop over config.outputs, up to the
\* copy or to the call of atomic_ffmpeg_encode
PoStep(p) ==
    LET o == pipe[p].oi
        n == pipe[p].path
        dst == OutName(n, o)
    IN  /\ pipe[p].pc = "po"
        /\ IF o > Len(Outputs) \/ safety_guard_active
           THEN /\ pipe' = [pipe EXCEPT ![p].pc = "after"]
                /\ UNCHANGED <<outs, faults>>
           ELSE IF is_mp3(n) /\ Outputs[o].codec = "alac"
           THEN IF ~_has_lossless_source(n) /\ NeedsOutput(pipe[p].force, outs[o], dst)
                THEN /\ outs' = [outs EXCEPT ![o] = Copy2(Makedirs(@), n, dst)]
                     /\ faults' = faults
                     /\ pipe' = [pipe EXCEPT ![p].oi = o + 1]
                ELSE /\ pipe' = [pipe EXCEPT ![p].oi = o + 1]
                     /\ UNCHANGED <<outs, faults>>
           ELSE IF NeedsOutput(pipe[p].force, outs[o], dst)
                THEN /\ pipe' = [pipe EXCEPT ![p].pc = "enc_prep", ![p].dst = dst,
                                             ![p].cmd = build_ffmpeg_command(Outputs[o])]
                     /\ UNCHANGED <<outs, faults>>
                ELSE /\ pipe' = [pipe EXCEPT ![p].oi = o + 1]
                     /\ UNCHANGED <<outs, faults>>
        /\ UNCHANGED <<cfg, src, in_progress, scan, evq, envLeft, encs>>

\* lines 180-186: atomic_ffmpeg_encode has returned; the next output
PoResume(p) ==
    /\ pipe[p].pc = "enc_ret"
    /\ pipe' = [pipe EXCEPT ![p] = [@ EXCEPT !.pc = "po", !.oi = @ + 1, !.dst = NoName,
                                             !.pre = {}, !.rc = 0, !.err = "",
                                             !.retried = FALSE, !.run = FALSE,
                                             !.runs = 0, !.cmd = <<>>]]
    /\ UNCHANGED <<cfg, src, outs, in_progress, scan, evq, envLeft, faults, encs>>

\* the sidecar of the stem of n, in the source and in every output directory
SidecarName(n) ==
    WithExt(nfc_path(PathStem(nfc_path(n))), "lrc")

\* sync_sidecars: copy when the destination is missing or older
sync_sidecars(os, n) ==
    LET sc == SidecarName(n)
    IN  [o \in OutIdx |->
            IF /\ Exists(src, sc)
               /\ CanWrite(os[o])
               /\ (Exists(os[o], sc) => src.files[sc] > os[o].files[sc].ver)
            THEN Put(os[o], sc, Content("copy", sc, src.files[sc]))
            ELSE os[o]]

\* delete_sidecars
delete_sidecars(os, n) ==
    [o \in OutIdx |-> RemoveIfExists(os[o], SidecarName(n))]

\* lines 122-128: config.fetch_lyrics raises AttributeError on a Config
\* without that field; otherwise the lyrics fetch may write the sidecar
\* into the source directory, and sync_sidecars runs
PsfAfter(p) ==
    /\ pipe[p].pc = "after"
    /\ IF ~ConfigHasFetchLyrics
       THEN /\ pipe' = [pipe EXCEPT ![p].pc = "finally", ![p].raised = TRUE]
            /\ UNCHANGED <<src, outs>>
       ELSE /\ \E wrote \in BOOLEAN :
                 src' = IF wrote /\ CanWrite(src) /\ ~Exists(src, SidecarName(pipe[p].path))
                        THEN Put(src, SidecarName(pipe[p].path), 1)
                        ELSE src
            /\ outs' = sync_sidecars(outs, pipe[p].path)
            /\ pipe' = [pipe EXCEPT ![p].pc = "finally", ![p].raised = FALSE]
    /\ UNCHANGED <<cfg, in_progress, scan, evq, envLeft, faults, encs>>

\* a slip: what a worker's call raises is not caught, and the worker ends
AfterReturn_Uncaught(p, raised) ==
    IF raised THEN {"dead"} ELSE {"idle"}

\* where a thread stands once process_source_file has returned or raised.
\* The scanner's process_one catches what a worker's call raises (lines
\* 377-381).  No handler catches what its call raises: the exception reaches
\* the notification library, and whether the delivering thread then goes on
\* to the next event or ends is not in this source.
AfterReturn(p, raised) ==
    IF raised /\ p \in Handlers THEN {"idle", "dead"} ELSE {"idle"}

\* lines 129-131: the finally clause
PsfFinally(p) ==
    /\ pipe[p].pc = "finally"
    /\ in_progress' = Release(pipe[p].path, pipe[p].raised)
    /\ \E pc \in AfterReturn(p, pipe[p].raised) :
          pipe' = [pipe EXCEPT ![p] = AtRest([@ EXCEPT !.pc = pc])]
    /\ UNCHANGED <<cfg, src, outs, scan, evq, envLeft, faults, encs>>

\* the steps of a thread inside process_source_file
Pipeline(p) ==
    \/ PsfEnter(p)
    \/ PsfAcquire(p)
    \/ PoStep(p)
    \/ EncPrep(p)
    \/ EncRun(p)
    \/ EncExit(p)
    \/ EncSettle(p)
    \/ PoResume(p)
    \/ PsfAfter(p)
    \/ PsfFinally(p)

----------------------------------------------------------------------------
(* watcher.py: AudioSyncHandler, run by handler thread h; sync.delete_outputs *)

Event(kind, path, to, isdir) ==
    [kind |-> kind, path |-> path, to |-> to, isdir |-> isdir]

\* what on_modified, on_moved and on_deleted do once delete_outputs returned
AfterDelete(r) ==
    IF r.ev = "modified" THEN [r EXCEPT !.pc = "later"]
    ELSE IF r.ev = "moved" /\ is_audio_file(r.to) THEN [r EXCEPT !.pc = "later", !.path = r.to]
    ELSE [r EXCEPT !.pc = "idle"]

\* on_created, on_modified, on_moved, on_deleted up to their first call
OnEvent(e) ==
    LET r == [IdlePipe EXCEPT !.ev = e.kind, !.path = e.path, !.to = e.to,
                              !.old = e.path,
                              !.stable = TRUE,
                              !.force = (e.kind \in {"modified", "moved"})]
        sidecar == has_sidecar_extension(e.path)
    IN  IF e.isdir THEN r
        ELSE IF e.kind = "created"
        THEN [r EXCEPT !.pc = IF sidecar THEN "sidecar" ELSE "later"]
        ELSE IF e.kind = "modified"
        THEN [r EXCEPT !.pc = IF safety_guard_active THEN "idle"
                              ELSE IF sidecar THEN "sidecar" ELSE "del_enter",
                       !.clear = ~safety_guard_active]
        ELSE IF e.kind = "moved"
        THEN IF sidecar \/ has_sidecar_extension(e.to) THEN [r EXCEPT !.pc = "sidecar"]
             ELSE IF has_audio_extension(e.path) THEN [r EXCEPT !.pc = "del_enter"]
             ELSE AfterDelete(r)
        ELSE [r EXCEPT !.pc = IF sidecar THEN "sidecar"
                              ELSE IF has_audio_extension(e.path) THEN "del_enter"
                              ELSE "idle"]

\* the notification mechanism calls the handler with the next event
EvTake(h) ==
    /\ pipe[h].pc = "idle"
    /\ evq # <<>>
    /\ pipe' = [pipe EXCEPT ![h] = AtRest(OnEvent(Head(evq)))]
    /\ evq' = Tail(evq)
    /\ scan' = [scan EXCEPT !.quiet = FALSE, !.handled = TRUE]
    /\ UNCHANGED <<cfg, src, outs, in_progress, envLeft, faults, encs>>

\* the sidecar branches of the four handlers
HandleSidecar(h) ==
    LET r == pipe[h]
    IN  /\ r.pc = "sidecar"
        /\ outs' =
             IF r.ev \in {"created", "modified"} THEN sync_sidecars(outs, r.path)
             ELSE IF r.ev = "deleted" THEN delete_sidecars(outs, r.path)
             ELSE LET os == IF has_sidecar_extension(r.path)
                            THEN delete_sidecars(outs, r.path) ELSE outs
                  IN  IF has_sidecar_extension(r.to) THEN sync_sidecars(os, r.to) ELSE os
        /\ pipe' = [pipe EXCEPT ![h] = AtRest([@ EXCEPT !.pc = "idle"])]
        /\ UNCHANGED <<cfg, src, in_progress, scan, evq, envLeft, faults, encs>>

\* _process_later: is_audio_file, the delay, the guard
ProcessLater(h) ==
    /\ pipe[h].pc = "later"
    /\ pipe' = [pipe EXCEPT ![h] = AtRest([@ EXCEPT
                  !.clear = @ \/ (is_audio_file(pipe[h].path) /\ ~safety_guard_active),
                  !.pc = IF is_audio_file(pipe[h].path) /\ ~safety_guard_active
                         THEN "enter" ELSE "idle"])]
    /\ UNCHANGED <<cfg, src, outs, in_progress, scan, evq, envLeft, faults, encs>>

\* delete_outputs, lines 195-202: normalize, the guard
DelOutputsEnter(h) ==
    LET r == [pipe[h] EXCEPT !.path = nfc_path(@)]
    IN  /\ pipe[h].pc = "del_enter"
        /\ pipe' = [pipe EXCEPT ![h] =
                      IF safety_guard_active THEN AtRest(AfterDelete(r))
                      ELSE [r EXCEPT !.pc = "del_loop", !.oi = 1, !.clear = TRUE]]
        /\ UNCHANGED <<cfg, src, outs, in_progress, scan, evq, envLeft, faults, encs>>

\* lines 205-218: the file names delete_outputs looks for in target o
filenames_to_check(n, o) ==
    IF is_mp3(n)
    THEN IF Outputs[o].codec = "alac" THEN {n}
         ELSE IF ~_has_lossless_source(n) THEN {WithExt(nfc_path(PathStem(n)), Extension(o))}
         ELSE {}
    ELSE {WithExt(nfc_path(PathStem(n)), Extension(o))}

\* lines 204-227: one iteration of the loop over config.outputs
DelOutputsStep(h) ==
    LET o == pipe[h].oi
        S == filenames_to_check(pipe[h].path, o)
    IN  /\ pipe[h].pc = "del_loop"
        /\ o <= Len(Outputs)
        /\ outs' = [outs EXCEPT ![o] = IF CanWrite(@) /\ CanList(@) THEN DelAll(@, S) ELSE @]
        /\ pipe' = [pipe EXCEPT ![h].oi = o + 1]
        /\ UNCHANGED <<cfg, src, in_progress, scan, evq, envLeft, faults, encs>>

\* line 230: delete_sidecars; delete_outputs returns to its handler
DelOutputsFinish(h) ==
    /\ pipe[h].pc = "del_loop"
    /\ pipe[h].oi > Len(Outputs)
    /\ outs' = delete_sidecars(outs, pipe[h].path)
    /\ pipe' = [pipe EXCEPT ![h] = AtRest(AfterDelete(pipe[h]))]
    /\ UNCHANGED <<cfg, src, in_progress, scan, evq, envLeft, faults, encs>>

\* the steps of a handler thread outside process_source_file
Handler(h) ==
    \/ HandleSidecar(h)
    \/ ProcessLater(h)
    \/ DelOutputsEnter(h)
    \/ DelOutputsStep(h)
    \/ DelOutputsFinish(h)

----------------------------------------------------------------------------
(* sync.py: initial_sync, run by the main thread at startup and then       *)
(* periodically (main.py, lines 68 and 83-86)                               *)

TempFiles(d) == {n \in Names(d) : EndsWith(n, TEMP_SUFFIX)}

\* a slip: the temp files are left where they are
CleanupStaleTemp_None(d) == d

\* cleanup_stale_temp_files, for one output directory
cleanup_stale_temp_files(d) ==
    IF IsDir(d) /\ CanList(d) /\ CanWrite(d) THEN DelAll(d, TempFiles(d)) ELSE d

\* purge_all_outputs, lines 316-327, for one output directory
PurgeDir(d) ==
    IF CanList(d) /\ CanWrite(d) THEN DelAll(d, Names(d)) ELSE d

\* the guard condition as the pass finds it when it starts
BlockedAtStart ==
    /\ ~appears_empty_dir(src)
    /\ ~cfg.allow
    /\ \E o \in OutIdx : appears_empty_dir(outs[o])

\* lines 340-341: initial_sync is called and creates the output directories
ScanStart ==
    /\ scan.main = "running"
    /\ scan.pc = "idle"
    /\ scan.pass < MaxPass
    /\ outs' = [o \in OutIdx |-> Makedirs(outs[o])]
    /\ scan' = [scan EXCEPT !.pc = "cleanup", !.files = {}, !.lossless = {},
                            !.pending = {}, !.oi = 0,
                            !.blocked = BlockedAtStart,
                            !.quiet = (evq = <<>> /\ \A h \in Handlers : pipe[h].pc \in {"idle", "dead"})]
    /\ UNCHANGED <<cfg, src, in_progress, pipe, evq, envLeft, faults, encs>>

\* lines 344-346
ScanCleanupTemp ==
    /\ scan.pc = "cleanup"
    /\ outs' = [o \in OutIdx |-> cleanup_stale_temp_files(outs[o])]
    /\ scan' = [scan EXCEPT !.pc = "force"]
    /\ UNCHANGED <<cfg, src, in_progress, pipe, evq, envLeft, faults, encs>>

\* lines 349-351 and 311-313: the purge is entered unless the guard is active
ScanForce ==
    /\ scan.pc = "force"
    /\ scan' = IF cfg.force /\ ~safety_guard_active
               THEN [scan EXCEPT !.pc = "purge", !.oi = 1]
               ELSE [scan EXCEPT !.pc = "enum"]
    /\ UNCHANGED <<cfg, src, outs, in_progress, pipe, evq, envLeft, faults, encs>>

\* lines 315-327: one iteration of the purge loop
ScanPurgeStep ==
    LET o == scan.oi
    IN  /\ scan.pc = "purge"
        /\ outs' = [outs EXCEPT ![o] = PurgeDir(Makedirs(@))]
        /\ scan' = IF o = Len(Outputs)
                   THEN [scan EXCEPT !.pc = "enum"]
                   ELSE [scan EXCEPT !.oi = o + 1]
        /\ UNCHANGED <<cfg, src, in_progress, pipe, evq, envLeft, faults, encs>>

PassDone(s) ==
    [IdleScan EXCEPT !.pass = s.pass + 1, !.quiet = s.quiet, !.handled = s.handled]

\* lines 353-371: the first guard check and the enumeration of the source
ScanEnumerate ==
    LET files == {n \in Names(src) : is_audio_file(n)}
    IN  /\ scan.pc = "enum"
        /\ scan' = IF safety_guard_active \/ ~CanList(src)
                   THEN PassDone(scan)
                   ELSE [scan EXCEPT !.pc = "dispatch", !.files = files, !.pending = files]
        /\ UNCHANGED <<cfg, src, outs, in_progress, pipe, evq, envLeft, faults, encs>>

\* line 384: a source file is handed to a free worker of the pool, which
\* runs process_one: process_source_file(f, force=False, check_stable=False)
ScanDispatch(w) ==
    /\ scan.pc = "dispatch"
    /\ pipe[w].pc = "idle"
    /\ \E f \in scan.pending :
          /\ scan' = [scan EXCEPT !.pending = @ \ {f}]
          /\ pipe' = [pipe EXCEPT ![w] = [IdlePipe EXCEPT !.pc = "enter", !.ev = "scan", !.path = f]]
    /\ UNCHANGED <<cfg, src, outs, in_progress, evq, envLeft, faults, encs>>

\* line 371: source_stems
source_stems(files) == {nfc_path(PathStem(f)) : f \in files}

\* a slip: no stem is taken for one that has a lossless source
LosslessStems_None == {}

\* lines 402-411: lossless_stems, from a fresh listing of the source
lossless_stems ==
    IF CanList(src)
    THEN {nfc_path(PathStem(n)) : n \in {m \in Names(src) : Lower(PathSuffix(m)) \in LOSSLESS_EXTENSIONS}}
    ELSE {}

\* a slip: the orphan cleanup is entered without a look at the guard
OrphanCleanupSkipped_Never == FALSE

\* lines 390-393: the second guard check
OrphanCleanupSkipped == safety_guard_active

\* lines 385-395 and 402-411: every worker has finished; the second guard
\* check; _cleanup_orphans starts
ScanJoin ==
    /\ scan.pc = "dispatch"
    /\ scan.pending = {}
    /\ \A w \in Workers : pipe[w].pc = "idle"
    /\ scan' = IF OrphanCleanupSkipped
               THEN PassDone(scan)
               ELSE [scan EXCEPT !.pc = "sweep", !.oi = 1, !.lossless = lossless_stems]
    /\ UNCHANGED <<cfg, src, outs, in_progress, pipe, evq, envLeft, faults, encs>>

\* lines 416-419
valid_extensions(o) ==
    IF Outputs[o].codec = "alac" THEN {"m4a", "mp3"} ELSE {Extension(o)}

\* lines 427-436: the files of target o that the sweep takes for orphans
Orphans(o, stems, lossless) ==
    {n \in Names(outs[o]) :
        /\ \E e \in valid_extensions(o) : EndsWith(n, e)
        /\ \/ nfc_path(PathStem(n)) \notin stems
           \/ /\ Outputs[o].codec = "alac"
              /\ EndsWith(n, "mp3")
              /\ nfc_path(PathStem(n)) \in lossless}

\* lines 413-446: one iteration of the orphan loop
ScanSweepStep ==
    LET o == scan.oi
    IN  /\ scan.pc = "sweep"
        /\ o <= Len(Outputs)
        /\ outs' = [outs EXCEPT ![o] =
                      IF CanList(@) /\ CanWrite(@)
                      THEN DelAll(@, Orphans(o, source_stems(scan.files), scan.lossless))
                      ELSE @]
        /\ scan' = [scan EXCEPT !.oi = o + 1]
        /\ UNCHANGED <<cfg, src, in_progress, pipe, evq, envLeft, faults, encs>>

\* lines 456-459: the sidecars of target o that the sweep takes for orphans
OrphanSidecars(o, stems) ==
    {n \in Names(outs[o]) :
        /\ Lower(PathSuffix(n)) \in SIDECAR_EXTENSIONS
        /\ nfc_path(PathStem(n)) \notin stems}

\* lines 448-467: the sidecar sweep of every output; the pass is complete
ScanSweepSidecars ==
    /\ scan.pc = "sweep"
    /\ scan.oi > Len(Outputs)
    /\ outs' = [o \in OutIdx |->
                  IF CanList(outs[o]) /\ CanWrite(outs[o])
                  THEN DelAll(outs[o], OrphanSidecars(o, source_stems(scan.files)))
                  ELSE outs[o]]
    /\ scan' = PassDone(scan)
    /\ UNCHANGED <<cfg, src, in_progress, pipe, evq, envLeft, faults, encs>>

\* the steps of the main thread
Scanner ==
    \/ ScanStart
    \/ ScanCleanupTemp
    \/ ScanForce
    \/ ScanPurgeStep
    \/ ScanEnumerate
    \/ ScanJoin
    \/ ScanSweepStep
    \/ ScanSweepSidecars

----------------------------------------------------------------------------
(* The external actors: whoever writes the source directory, and whoever   *)
(* unmounts, empties or write-protects a directory.  main.py starts the    *)
(* observer after the first pass: from then on a change of the source      *)
(* directory raises an event.                                              *)

XMp3 == <<"X", "mp3">>

XMP3 == <<"X", "MP3">>

XFLAC == <<"X", "FLAC">>

YFlac == <<"Y", "flac">>

XLrc == <<"X", "lrc">>

Hidden == <<"", "hid">>

\* the names under which files appear in the source directory
SrcNames == {XFlac, XMp3, XMP3, XFLAC, XLrc, Hidden}

\* the renames: an audio file to another stem, to another spelling of its
\* extension, and to a name that is not an audio file's
MovePairs == {<<XFlac, YFlac>>, <<XMp3, XMP3>>, <<XFlac, XLrc>>}

\* what the external actors do to a directory as a whole
EnvStatuses == {"rw", "noaccess", "missing"}

Watching == scan.pass >= 1

Raise(e) == IF Watching THEN Append(evq, e) ELSE evq

EnvStep ==
    /\ envLeft > 0
    /\ scan.pc = "idle"
    /\ envLeft' = envLeft - 1
    /\ scan' = [scan EXCEPT !.quiet = FALSE]
    /\ UNCHANGED <<cfg, in_progress, pipe, faults, encs>>

\* a file appears in the source directory, or its content changes
EnvPut(n) ==
    /\ EnvStep
    /\ src.st = "rw"
    /\ n \in Names(src) => src.files[n] < MaxVer
    /\ src' = Put(src, n, IF n \in Names(src) THEN src.files[n] + 1 ELSE 1)
    /\ evq' = Raise(Event(IF n \in Names(src) THEN "modified" ELSE "created", n, NoName, FALSE))
    /\ UNCHANGED outs

\* a file of the source directory is deleted
EnvRemove(n) ==
    /\ EnvStep
    /\ src.st = "rw"
    /\ n \in Names(src)
    /\ src' = Del(src, n)
    /\ evq' = Raise(Event("deleted", n, NoName, FALSE))
    /\ UNCHANGED outs

\* a file of the source directory is renamed
EnvMove(n, m) ==
    /\ EnvStep
    /\ src.st = "rw"
    /\ n \in Names(src)
    /\ m \notin Names(src)
    /\ src' = Del(Put(src, m, src.files[n]), n)
    /\ evq' = Raise(Event("moved", n, m, FALSE))
    /\ UNCHANGED outs

\* the source volume is unmounted, made unreadable, or comes back
EnvSrcStatus(st) ==
    /\ EnvStep
    /\ st # src.st
    /\ src' = [src EXCEPT !.st = st]
    /\ UNCHANGED <<outs, evq>>

\* an output directory is write-protected, made unreadable, removed, or
\* comes back
EnvOutStatus(o, st) ==
    /\ EnvStep
    /\ st # outs[o].st
    /\ outs' = [outs EXCEPT ![o] = IF st = "missing"
                                   THEN [st |-> st, files |-> NoFiles]
                                   ELSE [@ EXCEPT !.st = st]]
    /\ UNCHANGED <<src, evq>>

\* an external actor empties an output directory
EnvEmptyOut(o) ==
    /\ EnvStep
    /\ Names(outs[o]) # {}
    /\ outs' = [outs EXCEPT ![o].files = NoFiles]
    /\ UNCHANGED <<src, evq>>

\* an external actor deletes one file of an output directory
EnvOutRemove(o, n) ==
    /\ EnvStep
    /\ n \in Names(outs[o])
    /\ outs' = [outs EXCEPT ![o] = Del(@, n)]
    /\ UNCHANGED <<src, evq>>

Env ==
    \/ \E n \in SrcNames : EnvPut(n)
    \/ \E n \in SrcNames : EnvRemove(n)
    \/ \E mv \in MovePairs : EnvMove(mv[1], mv[2])
    \/ \E st \in EnvStatuses : EnvSrcStatus(st)
    \/ \E o \in OutIdx, st \in EnvStatuses : EnvOutStatus(o, st)
    \/ \E o \in OutIdx : EnvEmptyOut(o)
    \/ \E o \in OutIdx : \E n \in Names(outs[o]) : EnvOutRemove(o, n)

----------------------------------------------------------------------------
(* The whole program: the main thread, the pool's workers, the thread that *)
(* delivers events one at a time, and the external actors                  *)

ZArtifact(o) == <<"Z", Extension(o)>>

ZFlac == <<"Z", "flac">>

\* what an output directory may hold when the program starts: nothing; the
\* artifact of X.flac; or that artifact, an artifact whose source is gone
\* and a temp file of an interrupted encode
InitOutFiles(o) ==
    LET x == OutName(XFlac, o)
        a == [n \in {x} |-> Content("enc", XFlac, 1)]
        b == [n \in {x, ZArtifact(o), TmpName(x)} |->
                 IF n = x THEN Content("enc", XFlac, 1)
                 ELSE IF n = ZArtifact(o) THEN Content("enc", ZFlac, 1)
                 ELSE StalePartial]
    IN  {NoFiles, a, b}

\* what the source directory may hold when the program starts
InitSrcNames ==
    {{XFlac}, {XMP3}, {XFLAC, XMp3}, {Hidden}}

InitSrcFiles == {[n \in S |-> 1] : S \in InitSrcNames}

\* the output directories at start: both empty, or both populated
InitOuts ==
    LET pick(o, k) == CHOOSE f \in InitOutFiles(o) : Cardinality(DOMAIN f) = k
    IN  {[o \in OutIdx |-> [st |-> "rw", files |-> pick(o, k)]] : k \in {0, 3}}

TheHandler == <<"h", 1>>

Init ==
    /\ cfg \in [allow : BOOLEAN, force : BOOLEAN]
    /\ \E f \in InitSrcFiles : src = [st |-> "rw", files |-> f]
    /\ outs \in InitOuts
    /\ in_progress = {}
    /\ pipe = [p \in Pipes |-> IdlePipe]
    /\ scan = IdleScan
    /\ evq = <<>>
    /\ envLeft = MaxEnv
    /\ faults = 0
    /\ encs = NoEncs

Next ==
    \/ Scanner
    \/ \E w \in Workers : ScanDispatch(w)
    \/ \E w \in Workers : Pipeline(w)
    \/ EvTake(TheHandler)
    \/ Handler(TheHandler)
    \/ Pipeline(TheHandler)
    \/ Env

Spec == Init /\ [][Next]_vars

----------------------------------------------------------------------------
(* Two create events for one new file, delivered to two handler threads.   *)
(* The first pass found the source empty; then the file appeared and the   *)
(* notification mechanism reported it twice.                               *)

InitDedup ==
    /\ cfg = [allow |-> TRUE, force |-> FALSE]
    /\ \E n \in {XFlac, XMp3} :
          /\ src = [st |-> "rw", files |-> [m \in {n} |-> 1]]
          /\ evq = <<Event("created", n, NoName, FALSE), Event("created", n, NoName, FALSE)>>
    /\ outs = [o \in OutIdx |-> EmptyDir]
    /\ in_progress = {}
    /\ pipe = [p \in Pipes |-> IdlePipe]
    /\ scan = [IdleScan EXCEPT !.pass = 1, !.quiet = FALSE]
    /\ envLeft = 0
    /\ faults = 0
    /\ encs = NoEncs

NextDedup ==
    \E h \in Handlers :
        \/ EvTake(h)
        \/ ProcessLater(h)
        \/ Pipeline(h)

SpecDedup == InitDedup /\ [][NextDedup]_vars

----------------------------------------------------------------------------
(* The event dispatcher alone: the watcher has one event to deliver; the   *)
(* source directory is as the event left it, the output directories are as *)
(* earlier passes and events left them                                     *)

\* the files of a directory, from pairs of a name and a content
FilesOf(S) == [n \in {p[1] : p \in S} |-> (CHOOSE p \in S : p[1] = n)[2]]

\* the artifact of source n, content version v, as target o holds it
Art(n, v, o) ==
    <<OutName(n, o),
      Content(IF is_mp3(n) /\ Outputs[o].codec = "alac" THEN "copy" ELSE "enc", n, v)>>

Scene(files, a1, a2, ev) == [files |-> files, o1 |-> a1, o2 |-> a2, ev |-> ev]

Scenes ==
    { \* X.flac is rewritten
      Scene([n \in {XFlac} |-> 2], {Art(XFlac, 1, 1)}, {Art(XFlac, 1, 2)},
            Event("modified", XFlac, NoName, FALSE)),
      \* X.mp3 is rewritten
      Scene([n \in {XMp3} |-> 2], {Art(XMp3, 1, 1)}, {Art(XMp3, 1, 2)},
            Event("modified", XMp3, NoName, FALSE)),
      \* X.mp3 is rewritten; X.flac appeared after X.mp3 had been transcoded,
      \* and a pass has swept the copy of X.mp3
      Scene([n \in {XMp3, XFlac} |-> IF n = XMp3 THEN 2 ELSE 1],
            {Art(XFlac, 1, 1)}, {Art(XMp3, 1, 2)},
            Event("modified", XMp3, NoName, FALSE)),
      \* X.flac is deleted, Y.flac stays
      Scene([n \in {YFlac} |-> 1],
            {Art(XFlac, 1, 1), Art(YFlac, 1, 1)}, {Art(XFlac, 1, 2), Art(YFlac, 1, 2)},
            Event("deleted", XFlac, NoName, FALSE)),
      \* X.mp3 is deleted, Y.flac stays
      Scene([n \in {YFlac} |-> 1],
            {Art(XMp3, 1, 1), Art(YFlac, 1, 1)}, {Art(XMp3, 1, 2), Art(YFlac, 1, 2)},
            Event("deleted", XMp3, NoName, FALSE)),
      \* X.mp3 is deleted; X.flac, which appeared after X.mp3 had been
      \* transcoded, stays
      Scene([n \in {XFlac} |-> 1], {Art(XFlac, 1, 1)}, {Art(XMp3, 1, 2)},
            Event("deleted", XMp3, NoName, FALSE)),
      \* X.mp3 is deleted; X.flac, whose artifacts the targets hold, stays
      Scene([n \in {XFlac} |-> 1], {Art(XFlac, 1, 1)}, {Art(XFlac, 1, 2)},
            Event("deleted", XMp3, NoName, FALSE)),
      \* X.flac, the only file, is deleted
      Scene(NoFiles, {Art(XFlac, 1, 1)}, {Art(XFlac, 1, 2)},
            Event("deleted", XFlac, NoName, FALSE)),
      \* X.flac is renamed to Y.flac
      Scene([n \in {YFlac} |-> 1], {Art(XFlac, 1, 1)}, {Art(XFlac, 1, 2)},
            Event("moved", XFlac, YFlac, FALSE)),
      \* X.mp3 is renamed to X.MP3
      Scene([n \in {XMP3} |-> 1], {Art(XMp3, 1, 1)}, {Art(XMp3, 1, 2)},
            Event("moved", XMp3, XMP3, FALSE)),
      \* X.flac is renamed to X.lrc
      Scene([n \in {XLrc} |-> 1], {Art(XFlac, 1, 1)}, {Art(XFlac, 1, 2)},
            Event("moved", XFlac, XLrc, FALSE)),
      \* X.flac appears in an empty library
      Scene([n \in {XFlac} |-> 1], {}, {},
            Event("created", XFlac, NoName, FALSE)),
      \* X.flac appears next to Y.flac
      Scene([n \in {XFlac, YFlac} |-> 1], {Art(YFlac, 1, 1)}, {Art(YFlac, 1, 2)},
            Event("created", XFlac, NoName, FALSE)),
      \* X.flac appears next to Y.flac; one target still holds an artifact
      \* of an earlier X.flac
      Scene([n \in {XFlac, YFlac} |-> 1],
            {Art(XFlac, 0, 1), Art(YFlac, 1, 1)}, {Art(YFlac, 1, 2)},
            Event("created", XFlac, NoName, FALSE)),
      \* the sidecar of X.flac appears
      Scene([n \in {XFlac, XLrc} |-> 1], {Art(XFlac, 1, 1)}, {Art(XFlac, 1, 2)},
            Event("created", XLrc, NoName, FALSE)) }

InitHandlers ==
    /\ cfg \in [allow : BOOLEAN, force : {FALSE}]
    /\ \E s \in Scenes :
          /\ src = [st |-> "rw", files |-> s.files]
          /\ outs = <<[st |-> "rw", files |-> FilesOf(s.o1)],
                      [st |-> "rw", files |-> FilesOf(s.o2)]>>
          /\ evq = <<s.ev>>
    /\ in_progress = {}
    /\ pipe = [p \in Pipes |-> IdlePipe]
    /\ scan = [IdleScan EXCEPT !.pass = 1, !.quiet = FALSE]
    /\ envLeft = 0
    /\ faults = 0
    /\ encs = NoEncs

NextHandlers ==
    \/ EvTake(TheHandler)
    \/ Handler(TheHandler)
    \/ Pipeline(TheHandler)

SpecHandlers == InitHandlers /\ [][NextHandlers]_vars

----------------------------------------------------------------------------
(* The scanner alone: initial_sync is run at start-up and once more, the   *)
(* watcher delivers nothing and no external actor touches the directories. *)
(* The main thread and the threads of the pool are scheduled fairly: each  *)
(* takes its next step when it has one.                                     *)

InitPassNames ==
    {{XFlac}, {XFlac, YFlac}, {XFLAC, XMp3}, {XMp3, YFlac}}

\* shutil.copy2 writes the destination in place (sync.py, line 169): the
\* copy of X.mp3 into the first target was interrupted after it had started
\* writing, by an I/O error or by the end of the process, and the second
\* target was not reached
InterruptedCopy ==
    <<[st |-> "rw", files |-> [n \in {XMp3} |-> Content("partial", XMp3, 1)]],
      EmptyDir>>

InitPass ==
    /\ cfg \in [allow : BOOLEAN, force : BOOLEAN]
    /\ \E S \in InitPassNames : src = [st |-> "rw", files |-> [n \in S |-> 1]]
    /\ outs \in InitOuts \cup {InterruptedCopy}
    /\ in_progress = {}
    /\ pipe = [p \in Pipes |-> IdlePipe]
    /\ scan = IdleScan
    /\ evq = <<>>
    /\ envLeft = 0
    /\ faults = 0
    /\ encs = NoEncs

NextPass ==
    \/ Scanner
    \/ \E w \in Workers : ScanDispatch(w)
    \/ \E w \in Workers : Pipeline(w)

FairPass ==
    /\ WF_vars(Scanner)
    /\ \A w \in Workers : WF_vars(ScanDispatch(w)) /\ WF_vars(Pipeline(w))

SpecPass == InitPass /\ [][NextPass]_vars /\ FairPass

----------------------------------------------------------------------------
(* The scanner while the source volume may go away: at any moment of a     *)
(* pass, also while the workers are busy, the source directory is          *)
(* unmounted or comes back                                                  *)

SrcVolume(st) ==
    /\ envLeft > 0
    /\ st # src.st
    /\ src' = [src EXCEPT !.st = st]
    /\ envLeft' = envLeft - 1
    /\ scan' = [scan EXCEPT !.quiet = FALSE]
    /\ UNCHANGED <<cfg, outs, in_progress, pipe, evq, faults, encs>>

InitVolume ==
    /\ cfg \in [allow : BOOLEAN, force : BOOLEAN]
    /\ \E S \in InitPassNames : src = [st |-> "rw", files |-> [n \in S |-> 1]]
    /\ outs \in InitOuts
    /\ in_progress = {}
    /\ pipe = [p \in Pipes |-> IdlePipe]
    /\ scan = IdleScan
    /\ evq = <<>>
    /\ envLeft = MaxEnv
    /\ faults = 0
    /\ encs = NoEncs

NextVolume ==
    \/ Scanner
    \/ \E w \in Workers : ScanDispatch(w)
    \/ \E w \in Workers : Pipeline(w)
    \/ \E st \in {"rw", "missing"} : SrcVolume(st)

SpecVolume == InitVolume /\ [][NextVolume]_vars

----------------------------------------------------------------------------
(* The periodic re-run (main.py, lines 78-86): after the start-up pass the *)
(* main loop calls initial_sync again each time the interval has elapsed.  *)
(* Between two runs an external actor deletes a file of an output          *)
(* directory by hand; the watcher, which observes the source directory     *)
(* only, delivers nothing.  The main thread and the threads of the pool    *)
(* are scheduled fairly.                                                    *)

\* a file of an output directory is deleted by hand while the main loop
\* sleeps, and the interval will elapse once more
ManualDelete(o, n) ==
    /\ scan.pass \in 1..(MaxPass - 1)
    /\ EnvOutRemove(o, n)

InitHeal ==
    /\ cfg \in [allow : BOOLEAN, force : BOOLEAN]
    /\ \E S \in InitPassNames : src = [st |-> "rw", files |-> [n \in S |-> 1]]
    /\ outs \in InitOuts
    /\ in_progress = {}
    /\ pipe = [p \in Pipes |-> IdlePipe]
    /\ scan = IdleScan
    /\ evq = <<>>
    /\ envLeft = MaxEnv
    /\ faults = 0
    /\ encs = NoEncs

NextHeal ==
    \/ Scanner
    \/ \E w \in Workers : ScanDispatch(w)
    \/ \E w \in Workers : Pipeline(w)
    \/ \E o \in OutIdx : \E n \in Names(outs[o]) : ManualDelete(o, n)

SpecHeal == InitHeal /\ [][NextHeal]_vars /\ FairPass

----------------------------------------------------------------------------
(* A source file rewritten while the program runs: a periodic pass finds   *)
(* X.flac without artifacts and its workers transcode it; at any moment,   *)
(* also while a pipeline of X.flac is in flight, the file is rewritten and *)
(* the watcher delivers the modify event to the handler thread             *)

\* an external actor rewrites source file n; the watcher queues the event
SourceRewritten(n) ==
    /\ envLeft > 0
    /\ Exists(src, n)
    /\ src.st = "rw"
    /\ src.files[n] < MaxVer
    /\ src' = Put(src, n, src.files[n] + 1)
    /\ evq' = Append(evq, Event("modified", n, NoName, FALSE))
    /\ envLeft' = envLeft - 1
    /\ scan' = [scan EXCEPT !.quiet = FALSE]
    /\ UNCHANGED <<cfg, outs, in_progress, pipe, faults, encs>>

\* the library is X.flac, alone or next to Y.flac; the targets hold the
\* artifacts of Y.flac and none of X.flac
InitModify ==
    /\ cfg \in [allow : BOOLEAN, force : {FALSE}]
    /\ \E S \in {{XFlac}, {XFlac, YFlac}} :
          /\ src = [st |-> "rw", files |-> [n \in S |-> 1]]
          /\ outs = [o \in OutIdx |->
                       [st |-> "rw", files |-> FilesOf({Art(n, 1, o) : n \in S \ {XFlac}})]]
    /\ in_progress = {}
    /\ pipe = [p \in Pipes |-> IdlePipe]
    /\ scan = [IdleScan EXCEPT !.pass = 1]
    /\ evq = <<>>
    /\ envLeft = MaxEnv
    /\ faults = 0
    /\ encs = NoEncs

NextModify ==
    \/ ScanStart
    \/ ScanCleanupTemp
    \/ ScanForce
    \/ ScanEnumerate
    \/ \E w \in Workers : ScanDispatch(w)
    \/ ScanJoin
    \/ ScanSweepStep
    \/ ScanSweepSidecars
    \/ \E w \in Workers : Pipeline(w)
    \/ SourceRewritten(XFlac)
    \/ EvTake(TheHandler)
    \/ DelOutputsEnter(TheHandler)
    \/ DelOutputsStep(TheHandler)
    \/ DelOutputsFinish(TheHandler)
    \/ ProcessLater(TheHandler)
    \/ Pipeline(TheHandler)

SpecModify == InitModify /\ [][NextModify]_vars

----------------------------------------------------------------------------
(* A source file that arrives during a pass: the library is Y.flac with    *)
(* its artifacts in both targets; at any moment, also between the          *)
(* enumeration of a periodic pass and its sweep, X.flac is created and the *)
(* watcher delivers the create event to the handler thread                 *)

\* an external actor creates source file n; the watcher queues the event
SourceCreated(n) ==
    /\ envLeft > 0
    /\ src.st = "rw"
    /\ n \notin Names(src)
    /\ src' = Put(src, n, 1)
    /\ evq' = Append(evq, Event("created", n, NoName, FALSE))
    /\ envLeft' = envLeft - 1
    /\ scan' = [scan EXCEPT !.quiet = FALSE]
    /\ UNCHANGED <<cfg, outs, in_progress, pipe, faults, encs>>

InitArrive ==
    /\ cfg \in [allow : BOOLEAN, force : {FALSE}]
    /\ src = [st |-> "rw", files |-> [n \in {YFlac} |-> 1]]
    /\ outs = [o \in OutIdx |-> [st |-> "rw", files |-> FilesOf({Art(YFlac, 1, o)})]]
    /\ in_progress = {}
    /\ pipe = [p \in Pipes |-> IdlePipe]
    /\ scan = [IdleScan EXCEPT !.pass = 1]
    /\ evq = <<>>
    /\ envLeft = MaxEnv
    /\ faults = 0
    /\ encs = NoEncs

NextArrive ==
    \/ ScanStart
    \/ ScanCleanupTemp
    \/ ScanForce
    \/ ScanEnumerate
    \/ \E w \in Workers : ScanDispatch(w)
    \/ ScanJoin
    \/ ScanSweepStep
    \/ ScanSweepSidecars
    \/ \E w \in Workers : Pipeline(w)
    \/ SourceCreated(XFlac)
    \/ EvTake(TheHandler)
    \/ ProcessLater(TheHandler)
    \/ Pipeline(TheHandler)

SpecArrive == InitArrive /\ [][NextArrive]_vars

----------------------------------------------------------------------------
(* Events the handlers are to ignore: the watcher delivers one event for a *)
(* directory, or for a regular file that is neither audio nor sidecar (a   *)
(* cue sheet next to X.flac, a hidden file), while the targets hold the    *)
(* artifacts of the library                                                 *)

XCue == <<"X", "cue">>

YCue == <<"Y", "cue">>

\* a directory that carries an audio extension in its name
ZDir == <<"Z", "flac">>

\* the events: the four kinds, for the two files and, as directory events,
\* for the two directories
IgnoredEvents ==
    {Event(k, n, IF k = "moved" THEN YCue ELSE NoName, FALSE) :
        k \in {"created", "modified", "moved", "deleted"}, n \in {XCue, Hidden}}
    \cup
    {Event(k, n, IF k = "moved" THEN YCue ELSE NoName, TRUE) :
        k \in {"created", "modified", "moved", "deleted"}, n \in {XCue, ZDir}}

\* the regular files of the source directory once the event has happened
AfterEvent(lib, e) ==
    IF e.isdir THEN lib
    ELSE IF e.kind \in {"created", "modified"} THEN lib \cup {e.path}
    ELSE IF e.kind = "moved" THEN lib \cup {e.to}
    ELSE lib

InitIgnored ==
    /\ cfg \in [allow : BOOLEAN, force : {FALSE}]
    /\ \E lib \in {{XFlac}, {XFlac, XLrc}}, e \in IgnoredEvents :
          /\ src = [st |-> "rw", files |-> [n \in AfterEvent(lib, e) |-> 1]]
          /\ outs = [o \in OutIdx |->
                       [st |-> "rw",
                        files |-> FilesOf({Art(XFlac, 1, o)} \cup
                                          {<<n, Content("copy", n, 1)>> : n \in lib \cap {XLrc}})]]
          /\ evq = <<e>>
    /\ in_progress = {}
    /\ pipe = [p \in Pipes |-> IdlePipe]
    /\ scan = [IdleScan EXCEPT !.pass = 1, !.quiet = FALSE]
    /\ envLeft = 0
    /\ faults = 0
    /\ encs = NoEncs

NextIgnored ==
    \/ EvTake(TheHandler)
    \/ ProcessLater(TheHandler)
    \/ DelOutputsEnter(TheHandler)
    \/ DelOutputsStep(TheHandler)
    \/ DelOutputsFinish(TheHandler)

SpecIgnored == InitIgnored /\ [][NextIgnored]_vars

----------------------------------------------------------------------------
(* main.py and config.py: the start of the program.  A directory path is   *)
(* the sequence of its components; the empty sequence is the empty string. *)
(* What load_config finds: found (CONFIG_FILE or CONFIG_JSON is there),    *)
(* source_path, and targets, the name and the path of each output.         *)

\* config.py, lines 106-108
DuplicateNames(ts) ==
    \E i, j \in DOMAIN ts : i # j /\ ts[i].name = ts[j].name

\* a slip: the paths are not compared
DuplicatePaths_Unchecked(ts) == FALSE

\* config.py, lines 111-113
DuplicatePaths(ts) ==
    \E i, j \in DOMAIN ts : i # j /\ ts[i].path = ts[j].path

\* load_config and Config.__post_init__ raise ValueError
ConfigRaises(c) ==
    \/ ~c.found
    \/ c.source_path = <<>>
    \/ c.targets = <<>>
    \/ DuplicateNames(c.targets)
    \/ DuplicatePaths(c.targets)

\* main.py, lines 40-44
MainLoad ==
    /\ scan.main = "load"
    /\ scan' = IF ConfigRaises(cfg)
               THEN [scan EXCEPT !.main = "returned", !.status = 1]
               ELSE [scan EXCEPT !.main = "normalize"]
    /\ UNCHANGED <<cfg, src, outs, in_progress, pipe, evq, envLeft, faults, encs>>

\* main.py, lines 47-49
MainNormalize ==
    /\ scan.main = "normalize"
    /\ cfg' = [cfg EXCEPT !.source_path = nfc_path(@),
                          !.targets = [i \in DOMAIN @ |-> [@[i] EXCEPT !.path = nfc_path(@)]]]
    /\ scan' = [scan EXCEPT !.main = "check_source"]
    /\ UNCHANGED <<src, outs, in_progress, pipe, evq, envLeft, faults, encs>>

\* main.py, lines 52-54 and 68
MainCheckSource ==
    /\ scan.main = "check_source"
    /\ scan' = IF IsDir(src)
               THEN [scan EXCEPT !.main = "running"]
               ELSE [scan EXCEPT !.main = "returned", !.status = 1]
    /\ UNCHANGED <<cfg, src, outs, in_progress, pipe, evq, envLeft, faults, encs>>

TargetNames == {"alac", "mp3-256"}

\* two spellings of one directory name, and another directory
TargetPaths == {<<"out", "X">>, <<"out", "Xd">>, <<"out", "Y">>}

TargetLists ==
    {<<>>} \cup UNION {[1..k -> [name : TargetNames, path : TargetPaths]] : k \in 1..2}

InitMain ==
    /\ cfg \in [allow : {TRUE}, force : {FALSE}, found : BOOLEAN,
                 source_path : {<<>>, <<"music">>}, targets : TargetLists]
    /\ src \in {[st |-> "rw", files |-> [n \in {XFlac} |-> 1]],
                 [st |-> "missing", files |-> NoFiles]}
    /\ outs = [o \in OutIdx |-> [st |-> "missing", files |-> NoFiles]]
    /\ in_progress = {}
    /\ pipe = [p \in Pipes |-> IdlePipe]
    /\ scan = [IdleScan EXCEPT !.main = "load"]
    /\ evq = <<>>
    /\ envLeft = 0
    /\ faults = 0
    /\ encs = NoEncs

NextMain ==
    \/ MainLoad
    \/ MainNormalize
    \/ MainCheckSource
    \/ ScanStart

SpecMain == InitMain /\ [][NextMain]_vars

----------------------------------------------------------------------------
(* wait_for_stable alone: one call for X.flac, which is in the source       *)
(* directory or not, while whoever writes the file goes on writing it,      *)
(* rewrites it or removes it                                                *)

\* the size of the file changes
WriterWrites(n) ==
    /\ n \in Names(src)
    /\ \E s \in 1..MaxSize :
          /\ s # src.files[n]
          /\ src' = Put(src, n, s)
    /\ UNCHANGED <<cfg, outs, in_progress, pipe, scan, evq, envLeft, faults, encs>>

\* the file is removed
WriterRemoves(n) ==
    /\ n \in Names(src)
    /\ src' = Del(src, n)
    /\ UNCHANGED <<cfg, outs, in_progress, pipe, scan, evq, envLeft, faults, encs>>

InitStable ==
    /\ cfg = [allow |-> TRUE, force |-> FALSE]
    /\ src \in {[st |-> "rw", files |-> [n \in {XFlac} |-> 1]], EmptyDir}
    /\ outs = [o \in OutIdx |-> EmptyDir]
    /\ in_progress = {}
    /\ \E m \in 0..MaxMinStable, t \in 0..MaxTimeout :
          pipe = [p \in Pipes |->
                    IF p = TheHandler
                    THEN [IdlePipe EXCEPT !.pc = "enter", !.ev = "created",
                                          !.path = XFlac, !.old = XFlac, !.stable = TRUE,
                                          !.wait = [NoWait EXCEPT !.pc = "call",
                                                                  !.min = m, !.timeout = t]]
                    ELSE IdlePipe]
    /\ scan = [IdleScan EXCEPT !.pass = 1, !.quiet = FALSE]
    /\ evq = <<>>
    /\ envLeft = 0
    /\ faults = 0
    /\ encs = NoEncs

NextStable ==
    \/ WaitForStable(TheHandler)
    \/ WriterWrites(XFlac)
    \/ WriterRemoves(XFlac)

\* the thread that called wait_for_stable is scheduled
SpecStable == InitStable /\ [][NextStable]_vars /\ WF_vars(WaitForStable(TheHandler))

----------------------------------------------------------------------------
(* The encoder alone: one call of atomic_ffmpeg_encode on a directory that  *)
(* is writable or read-only and may hold the destination and a stale temp   *)
(* file                                                                     *)

EncThread == <<"h", 1>>

OldContent == Content("enc", XFlac, 0)

\* the OutputConfig of target o as configured, and with include_artwork
\* switched off
EncConfigs(o) ==
    {Outputs[o], [Outputs[o] EXCEPT !.include_artwork = FALSE]}

StaleContent == StalePartial

InitEnc ==
    /\ cfg = [allow |-> TRUE, force |-> FALSE]
    /\ src = [st |-> "rw", files |-> [n \in {XFlac} |-> 1]]
    /\ in_progress = {XFlac}
    /\ scan = IdleScan
    /\ evq = <<>>
    /\ envLeft = 0
    /\ faults = 0
    /\ encs = NoEncs
    /\ \E o \in OutIdx, st \in {"rw", "ro"}, hasDst \in BOOLEAN, hasTmp \in BOOLEAN, f \in BOOLEAN :
        \E c \in EncConfigs(o) :
          LET dst == OutName(XFlac, o)
              d0 == [st |-> st, files |-> NoFiles]
              d1 == IF hasDst THEN Put(d0, dst, OldContent) ELSE d0
              d2 == IF hasTmp THEN Put(d1, TmpName(dst), StaleContent) ELSE d1
          IN  /\ outs = [q \in OutIdx |-> IF q = o THEN d2 ELSE EmptyDir]
              /\ pipe = [p \in Pipes |->
                           IF p = EncThread
                           THEN [IdlePipe EXCEPT !.pc = "enc_prep", !.ev = "created",
                                                 !.path = XFlac, !.force = f,
                                                 !.clear = TRUE,
                                                 !.oi = o, !.dst = dst,
                                                 !.cmd = build_ffmpeg_command(c)]
                           ELSE IdlePipe]

NextEnc ==
    \/ EncPrep(EncThread)
    \/ EncRun(EncThread)
    \/ EncExit(EncThread)
    \/ EncSettle(EncThread)

SpecEnc == InitEnc /\ [][NextEnc]_vars

----------------------------------------------------------------------------
(* The process is killed while the encoder runs, and started again.  The   *)
(* watcher's thread is inside atomic_ffmpeg_encode for X.flac; the         *)
(* periodic pass may run at the same time; the source volume may go away   *)
(* at any moment, and an output directory may be made unreadable while no  *)
(* pass runs.  The new process starts with             *)
(* initial_sync.                                                           *)

\* the process ends while the external encoder of some thread is running.
\* The encoder ends with it, or goes on and completes the temp file, which
\* no one renames.  Threads, the in-progress set and pending events are gone.
Kill ==
    /\ \E p \in Pipes : pipe[p].pc = "enc_wait" /\ pipe[p].run
    /\ \E completes \in BOOLEAN :
          outs' = [o \in OutIdx |->
                     [outs[o] EXCEPT !.files =
                        [n \in Names(outs[o]) |->
                           IF /\ completes
                              /\ \E p \in Pipes : /\ pipe[p].pc = "enc_wait" /\ pipe[p].run
                                                   /\ pipe[p].oi = o
                                                   /\ n = EncoderTarget(pipe[p].dst)
                           THEN Content("enc", outs[o].files[n].from, outs[o].files[n].ver)
                           ELSE outs[o].files[n]]]]
    /\ pipe' = [p \in Pipes |-> IdlePipe]
    /\ in_progress' = {}
    /\ scan' = IdleScan
    /\ evq' = <<>>
    /\ UNCHANGED <<cfg, src, envLeft, faults, encs>>

InitKill ==
    /\ cfg \in [allow : BOOLEAN, force : {FALSE}]
    /\ src = [st |-> "rw", files |-> [n \in {XFlac} |-> 1]]
    /\ in_progress = {XFlac}
    /\ scan = [IdleScan EXCEPT !.pass = 1, !.quiet = FALSE]
    /\ evq = <<>>
    /\ envLeft = MaxEnv
    /\ faults = 0
    /\ encs = NoEncs
    /\ \E o \in OutIdx, hasDst \in BOOLEAN, other \in BOOLEAN, f \in BOOLEAN :
          LET dst == OutName(XFlac, o)
              d1 == IF hasDst THEN Put(EmptyDir, dst, OldContent) ELSE EmptyDir
              d2 == IF other THEN [st |-> "rw", files |-> FilesOf({Art(YFlac, 1, 3 - o)})]
                    ELSE EmptyDir
          IN  /\ outs = [q \in OutIdx |-> IF q = o THEN d1 ELSE d2]
              /\ pipe = [p \in Pipes |->
                           IF p = TheHandler
                           THEN [IdlePipe EXCEPT !.pc = "enc_prep", !.ev = "modified",
                                                 !.path = XFlac, !.old = XFlac,
                                                 !.force = f, !.stable = TRUE,
                                                 !.waited = "true", !.clear = TRUE,
                                                 !.oi = o, !.dst = dst,
                                                 !.cmd = build_ffmpeg_command(Outputs[o])]
                           ELSE IdlePipe]

NextKill ==
    \/ EncPrep(TheHandler)
    \/ EncRun(TheHandler)
    \/ EncExit(TheHandler)
    \/ EncSettle(TheHandler)
    \/ Kill
    \/ \E st \in {"rw", "missing"} : SrcVolume(st)
    \/ \E o \in OutIdx, st \in {"rw", "noaccess"} : EnvOutStatus(o, st)
    \/ ScanStart
    \/ ScanCleanupTemp

SpecKill == InitKill /\ [][NextKill]_vars

----------------------------------------------------------------------------
(* _remove_artwork_from_command alone: a thread holds a command whose      *)
(* encoder run has failed and filters it for the retry (encoder.py, line   *)
(* 179); the function is then applied once more to its own result          *)

\* the options a command is put together from, each with its value
CommandOptions ==
    {<<"-y">>, <<"-i", SourceArg>>, <<"-map", "0:a:0">>, <<"-map", "0:v:0?">>,
     <<"-c:a", "alac">>, <<"-c:v", "copy">>, <<"-vf", "scale=300:300">>,
     <<"-vframes", "1">>}

RECURSIVE Concat(_)
Concat(ss) == IF ss = <<>> THEN <<>> ELSE Head(ss) \o Concat(Tail(ss))

\* ffmpeg, up to MaxOptions options, the output path; and the commands of
\* build_ffmpeg_command for the configured targets, with and without artwork
Commands ==
    {<<"ffmpeg">> \o Concat(os) \o <<DestArg>> :
        os \in UNION {[1..k -> CommandOptions] : k \in 0..MaxOptions}}
    \cup UNION {{build_ffmpeg_command(c) : c \in EncConfigs(o)} : o \in OutIdx}

\* line 179, and the same call on the result
FilterCommand(p) ==
    /\ pipe[p].pc \in {"filter", "filtered"}
    /\ pipe' = [pipe EXCEPT ![p].cmd = _remove_artwork_from_command(@),
                            ![p].pc = IF @ = "filter" THEN "filtered" ELSE "filtered_twice"]
    /\ UNCHANGED <<cfg, src, outs, in_progress, scan, evq, envLeft, faults, encs>>

InitFilter ==
    /\ cfg = [allow |-> TRUE, force |-> FALSE]
    /\ src = [st |-> "rw", files |-> [n \in {XFlac} |-> 1]]
    /\ outs = [o \in OutIdx |-> EmptyDir]
    /\ in_progress = {}
    /\ \E c \in Commands :
          pipe = [p \in Pipes |-> IF p = EncThread
                                  THEN [IdlePipe EXCEPT !.pc = "filter", !.cmd = c]
                                  ELSE IdlePipe]
    /\ scan = [IdleScan EXCEPT !.pass = 1]
    /\ evq = <<>>
    /\ envLeft = 0
    /\ faults = 0
    /\ encs = NoEncs

NextFilter == FilterCommand(EncThread)

SpecFilter == InitFilter /\ [][NextFilter]_vars

----------------------------------------------------------------------------
(* Claims *)

DestState(p) ==
    IF pipe[p].dst \in Names(outs[pipe[p].oi])
    THEN {outs[pipe[p].oi].files[pipe[p].dst]}
    ELSE {}

EncReturned(p) == pipe[p].pc = "enc_ret"

\* C4: from the start of the external encode until atomic_ffmpeg_encode
\* returns, and after it has returned a failure (a failed retry included),
\* the destination is as it was at the call: absent, or holding its prior
\* content; it never holds a partially written file.
C4_DestUnchangedOnFailure ==
    \A p \in Pipes :
        pipe[p].pc \in {"enc_run", "enc_wait", "enc_exit", "enc_ret"} =>
            /\ (EncReturned(p) /\ pipe[p].rc = 0) \/ DestState(p) = pipe[p].pre
            /\ \A c \in DestState(p) : c.kind # "partial"

C4_Witness ==
    \E p \in Pipes :
        /\ EncReturned(p) /\ pipe[p].rc # 0
        /\ pipe[p].run /\ pipe[p].retried
        /\ pipe[p].pre = {OldContent}

\* C5 as stated: whenever atomic_ffmpeg_encode returns a non-zero status, no
\* temp-suffixed file for the destination is left in the output directory.
C5_NoTempOnFailure ==
    \A p \in Pipes :
        (EncReturned(p) /\ pipe[p].rc # 0) =>
            TmpName(pipe[p].dst) \notin Names(outs[pipe[p].oi])

\* C5 amended: whenever atomic_ffmpeg_encode returns a non-zero status and
\* the output directory is writable, no temp-suffixed file for the
\* destination is left in it (the removal is attempted on every failure
\* path, and its own failure is swallowed).
C5_NoTempOnFailureWhenWritable ==
    \A p \in Pipes :
        (EncReturned(p) /\ pipe[p].rc # 0 /\ CanWrite(outs[pipe[p].oi])) =>
            TmpName(pipe[p].dst) \notin Names(outs[pipe[p].oi])

C5_Witness ==
    \E p \in Pipes :
        /\ EncReturned(p) /\ pipe[p].rc # 0
        /\ pipe[p].run
        /\ CanWrite(outs[pipe[p].oi])


----------------------------------------------------------------------------
(* The safety guard *)

\* a directory appears empty: it is missing, it cannot be read, or it holds
\* only dot-prefixed entries
LooksEmpty(d) ==
    \/ d.st \in {"missing", "noaccess"}
    \/ \A n \in Names(d) : StartsWithDot(n)

\* the guard condition: the source appears empty, or an output appears empty
\* with bulk-empty disallowed
GuardCondition ==
    \/ LooksEmpty(src)
    \/ ~cfg.allow /\ \E o \in OutIdx : LooksEmpty(outs[o])

\* a step of the program, as opposed to a step of an external actor
ProgramStep == envLeft' = envLeft

\* the files of an output directory that are not temp files
Artifacts(d) == {n \in Names(d) : ~EndsWith(n, TEMP_SUFFIX)}

\* C1: while the guard condition holds, no step of the program creates or
\* deletes an artifact in any output directory.
C1_GuardSuppressesChanges ==
    [][(GuardCondition /\ ProgramStep) =>
          \A o \in OutIdx : Artifacts(outs'[o]) = Artifacts(outs[o])]_vars

\* C2: safety_guard_active is true exactly when the source appears empty, or
\* allow_initial_bulk_encode is false and some output directory appears
\* empty; a source that appears empty makes it true whatever the flag and
\* the outputs.
C2_GuardTruthTable ==
    /\ safety_guard_active = GuardCondition
    /\ LooksEmpty(src) => safety_guard_active

\* the scanner is about to evaluate the guard; the source holds only a
\* dot-prefixed entry, the flag is set and every output is populated
C2_Witness ==
    /\ scan.pc = "enum"
    /\ Names(src) # {} /\ LooksEmpty(src)
    /\ cfg.allow
    /\ \A o \in OutIdx : ~LooksEmpty(outs[o])
    /\ safety_guard_active

\* a pass that started with a non-empty source, bulk-empty disallowed and an
\* output that appeared empty, and that runs undisturbed
BlockedPass == scan.pc # "idle" /\ scan.blocked /\ scan.quiet

\* C3 as stated: such a pass deletes no file in any output directory, and no
\* step of the program deletes a file of the source directory.
C3_PassDeletesNothing ==
    [][ProgramStep =>
          /\ BlockedPass => \A o \in OutIdx : Names(outs[o]) \subseteq Names(outs'[o])
          /\ Names(src) \subseteq Names(src')]_vars

\* C3 amended: such a pass deletes no file in any output directory other
\* than stale temp files, and no step of the program deletes a file of the
\* source directory.
C3_PassDeletesOnlyTempFiles ==
    [][ProgramStep =>
          /\ BlockedPass =>
                \A o \in OutIdx : (Names(outs[o]) \ Names(outs'[o])) \subseteq TempFiles(outs[o])
          /\ Names(src) \subseteq Names(src')]_vars

\* an external actor emptied one output; the pass started afterwards has
\* removed the stale temp file of the other and reached its guard check
C3_Witness ==
    /\ scan.pc = "enum"
    /\ BlockedPass
    /\ envLeft < MaxEnv
    /\ Names(src) # {}
    /\ \E o \in OutIdx : Names(outs[o]) = {}
    /\ \E o \in OutIdx : Names(outs[o]) # {} /\ TempFiles(outs[o]) = {}


----------------------------------------------------------------------------
(* The in-progress set *)

\* C6: at most one pipeline runs for a normalized source path, whichever
\* threads are involved, and a path is in the in-progress set exactly while
\* its pipeline runs.
C6_OnePipelinePerPath ==
    /\ \A p, q \in Pipes :
          (InPipeline(p) /\ InPipeline(q) /\ pipe[p].path = pipe[q].path) => p = q
    /\ in_progress = {pipe[p].path : p \in {q \in Pipes : InPipeline(q)}}

\* a pool worker runs the pipeline of a path while the handler thread stands
\* at the lock for the same path
C6_Witness ==
    \E w \in Workers, h \in Handlers :
        /\ InPipeline(w)
        /\ pipe[h].pc = "acquire"
        /\ pipe[h].path = pipe[w].path

\* C8: the path is released on every exit of its pipeline, an exception
\* included: once no pipeline runs the set is empty, and a thread that
\* reaches the lock for a path whose pipeline is not running is not turned
\* away.
C8_ReleasedOnEveryExit ==
    /\ (\A p \in Pipes : ~InPipeline(p)) => in_progress = {}
    /\ \A p \in Pipes :
          (/\ pipe[p].pc = "acquire"
           /\ \A q \in Pipes : InPipeline(q) => pipe[q].path # pipe[p].path)
          => ~AlreadyInProgress(pipe[p].path)

\* the worker's processing of X.flac raised; the handler now runs the
\* pipeline of a later modify event for X.flac
C8_Witness ==
    /\ Names(src) = {XFlac}
    /\ \E w \in Workers : pipe[w].pc = "idle" /\ pipe[w].raised
    /\ InPipeline(TheHandler)
    /\ pipe[TheHandler].ev = "modified"
    /\ pipe[TheHandler].path = XFlac
    /\ in_progress = {XFlac}

\* a thread inside a call of atomic_ffmpeg_encode for target o
Encoding(o) ==
    {p \in Pipes : pipe[p].pc \in {"enc_prep", "enc_run", "enc_wait", "enc_exit"} /\ pipe[p].oi = o}

\* C7 as stated: two create events for one source path lead to at most one
\* call of the encoder per target.
C7_AtMostOneEncodeCall ==
    \A o \in OutIdx : encs[o].calls <= 1

\* C7 amended: of the encoder calls the two events lead to, per target at
\* most one is running at any time, none runs or starts once one has
\* succeeded, and so at most one succeeds; a call that failed may be followed
\* by the other event's call.
C7_AtMostOneEncodeRunningOrDone ==
    \A o \in OutIdx : encs[o].ok + Cardinality(Encoding(o)) <= 1

\* the second event's thread was turned away at the lock while the first
\* one's encoder call was running
C7_Witness ==
    \E h, g \in Handlers :
        /\ pipe[h].pc = "idle" /\ pipe[h].skipped
        /\ \E o \in OutIdx : g \in Encoding(o) /\ encs[o].calls = 1

----------------------------------------------------------------------------
(* Convergence and idempotence *)

\* the audio files a pass finds in the source directory
SourceAudio == {n \in Names(src) : is_audio_file(n)}

\* what the workers of one pass write into the empty directory of target o
FreshWritten(o) ==
    {IF is_mp3(n) /\ Outputs[o].codec = "alac" THEN n ELSE OutName(n, o) :
        n \in {m \in SourceAudio :
                  ~(is_mp3(m) /\ Outputs[o].codec = "alac" /\ _has_lossless_source(m))}}

\* the names one pass leaves in target o when it starts from empty outputs:
\* nothing when the guard blocks it, otherwise what the workers wrote less
\* what the orphan sweep removes
FreshScanNames(o) ==
    IF LooksEmpty(src) \/ ~cfg.allow THEN {}
    ELSE {n \in FreshWritten(o) :
            ~(/\ \E e \in valid_extensions(o) : EndsWith(n, e)
              /\ \/ nfc_path(PathStem(n)) \notin source_stems(SourceAudio)
                 \/ /\ Outputs[o].codec = "alac"
                    /\ EndsWith(n, "mp3")
                    /\ nfc_path(PathStem(n)) \in lossless_stems)}

\* events were handled, then a pass ran undisturbed to its end, nothing
\* failed and every directory is in order
EventsThenPass ==
    /\ scan.pc = "idle"
    /\ scan.pass >= 2
    /\ scan.handled
    /\ scan.quiet
    /\ faults = 0
    /\ src.st = "rw"
    /\ \A o \in OutIdx : outs[o].st = "rw"

\* C9: after any sequence of events followed by one full pass, every output
\* directory holds what one pass on the final source leaves when it starts
\* from empty outputs.
C9_EventsThenPassEqualsFreshScan ==
    EventsThenPass => \A o \in OutIdx : Names(outs[o]) = FreshScanNames(o)

\* C10: the second of two passes with no filesystem change in between
\* writes and deletes nothing in any output directory.
C10_SecondPassChangesNothing ==
    [][(/\ scan.pass = 1
        /\ scan.pc # "idle"
        /\ envLeft = MaxEnv
        /\ faults' = 0)
       => \A o \in OutIdx : outs'[o].files = outs[o].files]_vars


----------------------------------------------------------------------------
(* The resolver *)

\* a source file of a lossy format
IsLossy(n) == Lower(PathSuffix(n)) \in LOSSY_EXTENSIONS

\* another file of the source directory with the stem of n and a lossless
\* format
LosslessOfSameStem(n) ==
    \E m \in Names(src) :
        /\ m # n
        /\ PathStem(m) = PathStem(n)
        /\ Lower(PathSuffix(m)) \in LOSSLESS_EXTENSIONS

\* thread p takes the step of _process_outputs that resolves its source for
\* the target it stands at
Resolves(p) ==
    /\ pipe[p].pc = "po"
    /\ pipe'[p] # pipe[p]
    /\ pipe[p].oi <= Len(Outputs)
    /\ ~GuardCondition

\* the step skips the target, and writes nothing
StepSkips(p) ==
    /\ pipe'[p].pc = "po"
    /\ outs' = outs

\* the step makes or keeps a verbatim copy under the name dst
StepCopies(p, dst) ==
    LET o == pipe[p].oi
    IN  /\ pipe'[p].pc = "po"
        /\ \A m \in Names(outs'[o]) \ Names(outs[o]) : m = dst
        /\ (Exists(src, pipe[p].path) /\ outs[o].st = "rw") =>
               /\ dst \in Names(outs'[o])
               /\ outs'[o].files[dst].kind = "copy" \/ outs'[o].files[dst] = outs[o].files[dst]

\* the step calls the encoder for the name dst, or keeps the artifact of
\* that name
StepTranscodes(p, dst) ==
    \/ pipe'[p].pc = "enc_prep" /\ pipe'[p].dst = dst
    \/ pipe'[p].pc = "po" /\ outs' = outs /\ Exists(outs[pipe[p].oi], dst)

\* C11: a lossy source is copied under its own name into the lossless-mirror
\* target unless a lossless source of the same stem exists, and then it is
\* skipped for that target; every other pair of source and target is
\* transcoded to stem + target extension.
C11_ResolverDecision ==
    [][\A p \in Pipes :
          Resolves(p) =>
             LET n == pipe[p].path
                 o == pipe[p].oi
             IN  IF IsLossy(n) /\ Outputs[o].codec = "alac"
                 THEN IF LosslessOfSameStem(n) THEN StepSkips(p) ELSE StepCopies(p, n)
                 ELSE StepTranscodes(p, WithExt(PathStem(n), Extension(o)))]_vars


----------------------------------------------------------------------------
(* The program started on a source directory that holds X.mp3 alone: the   *)
(* lossless X.flac can only appear later, put there by an external actor.  *)

InitLate ==
    /\ cfg \in [allow : BOOLEAN, force : BOOLEAN]
    /\ src = [st |-> "rw", files |-> [n \in {XMp3} |-> 1]]
    /\ outs \in InitOuts
    /\ in_progress = {}
    /\ pipe = [p \in Pipes |-> IdlePipe]
    /\ scan = IdleScan
    /\ evq = <<>>
    /\ envLeft = MaxEnv
    /\ faults = 0
    /\ encs = NoEncs

SpecLate == InitLate /\ [][Next]_vars

\* X.mp3 and X.flac are both in the source directory, every directory can
\* be read and written, and no encoder call or rename has failed
BothPresent ==
    /\ {XMp3, XFlac} \subseteq Names(src)
    /\ src.st = "rw"
    /\ \A o \in OutIdx : outs[o].st = "rw"
    /\ faults = 0

\* the lossless-mirror target holds the artifact of X.flac and no copy of
\* X.mp3
MirrorHoldsLossless(d) ==
    /\ OutName(XFlac, 1) \in Names(d)
    /\ d.files[OutName(XFlac, 1)].kind = "enc"
    /\ d.files[OutName(XFlac, 1)].from = XFlac
    /\ XMp3 \notin Names(d)

\* C12 as stated: after any reconciliation pass that was not disturbed by
\* events, with X.mp3 and X.flac both present, the lossless-mirror target
\* holds the artifact of X.flac and no copy of X.mp3.
C12_AfterAnyPass ==
    (scan.pc = "idle" /\ scan.pass >= 1 /\ scan.quiet /\ BothPresent)
        => MirrorHoldsLossless(outs[1])

\* C12, amended: a reconciliation pass that is not stopped by the guard and
\* runs to the end of its sweep, undisturbed by events, with X.mp3 and
\* X.flac both present, leaves the lossless-mirror target with the artifact
\* of X.flac and no copy of X.mp3, also when the copy was made by an earlier
\* pass.
C12_LosslessReplacesCopy ==
    [][(scan.pc = "sweep" /\ scan'.pc = "idle" /\ scan.quiet /\ BothPresent)
          => MirrorHoldsLossless(outs'[1])]_vars

\* the first pass ran on X.mp3 alone with the guard inactive and made the
\* copy; X.flac appeared afterwards and its create event was handled; the
\* second pass has run to its end
C12_Witness ==
    /\ scan.pc = "idle"
    /\ scan.pass = 2
    /\ scan.quiet
    /\ scan.handled
    /\ cfg.allow
    /\ BothPresent
    /\ MirrorHoldsLossless(outs[1])


----------------------------------------------------------------------------
(* The orphan sweep *)

\* the stem of n has a lossless file in the source directory
StemHasLossless(n) ==
    \E m \in Names(src) :
        /\ Lower(PathSuffix(m)) \in LOSSLESS_EXTENSIONS
        /\ nfc_path(PathStem(m)) = nfc_path(PathStem(n))

\* the files of target o that the sweep has to delete: those of a valid
\* extension whose stem is not a source stem, and the copied MP3s of the
\* lossless-mirror target whose stem has a lossless source
SweepShouldDelete(o) ==
    {n \in Names(outs[o]) :
        /\ Lower(PathSuffix(n)) \in valid_extensions(o)
        /\ \/ nfc_path(PathStem(n)) \notin source_stems(scan.files)
           \/ /\ Outputs[o].codec = "alac"
              /\ is_mp3(n)
              /\ StemHasLossless(n)}

\* the main thread takes the sweep's step for a target it can list and write
SweepsTarget(o) ==
    /\ scan.pc = "sweep"
    /\ scan.oi = o
    /\ scan'.pc = "sweep"
    /\ scan'.oi = o + 1
    /\ outs[o].st = "rw"
    /\ src.st = "rw"

\* C13: the orphan sweep deletes from each output directory exactly the
\* files of a valid extension whose stem is not in the enumerated source-stem
\* set and the copied MP3s of the lossless-mirror target whose stem has a
\* lossless source; every other file is left as it is.
C13_SweepDeletesExactlyOrphans ==
    [][\A o \in OutIdx :
          SweepsTarget(o) =>
             /\ Names(outs'[o]) = Names(outs[o]) \ SweepShouldDelete(o)
             /\ \A n \in Names(outs'[o]) : outs'[o].files[n] = outs[o].files[n]
             /\ \A q \in OutIdx \ {o} : outs'[q] = outs[q]]_vars


----------------------------------------------------------------------------
(* The event handlers *)

\* the event that handler h is handling, or is about to take from the queue
Handling(h) ==
    IF pipe[h].pc = "idle"
    THEN IF evq # <<>> THEN Head(evq) ELSE Event("none", NoName, NoName, FALSE)
    ELSE Event(pipe[h].ev, pipe[h].old, pipe[h].to, FALSE)

\* handler h returns from the handling of an event of the given kind: at
\* once, in the step that takes the event, or after the steps it needed
HandlingEnds(h, kind) ==
    /\ Handling(h).kind = kind
    /\ pipe'[h].pc \in {"idle", "dead"}
    /\ \/ /\ pipe[h].pc = "idle"
          /\ evq # <<>>
          /\ evq' = Tail(evq)
          /\ \A g \in Handlers : pipe'[g].pc = pipe[g].pc
       \/ pipe[h].pc \notin {"idle", "dead"}

\* the artifacts in directory d that were made from an earlier content of
\* the source file n
StaleOf(n, d) ==
    {m \in Artifacts(d) :
        /\ d.files[m].kind \in {"enc", "copy"}
        /\ d.files[m].from = n
        /\ d.files[m].ver < src.files[n]}

\* C14 as stated: when the handling of a modify event on an audio source
\* completes, no target holds an artifact made from the content the source
\* had before the event.
C14_ModifyLeavesNoStaleArtifact ==
    [][\A h \in Handlers :
          LET n == Handling(h).path
          IN  (/\ HandlingEnds(h, "modified")
               /\ is_audio_file(n)
               /\ n \in Names(src))
                 => \A o \in OutIdx : StaleOf(n, outs'[o]) = {}]_vars


\* the artifacts in directory d that were made from the source file n
MadeFrom(n, d) ==
    {m \in Artifacts(d) : d.files[m].kind \in {"enc", "copy"} /\ d.files[m].from = n}

\* C15: when the handling of a delete event for an audio path ends, and
\* delete_outputs found the guard inactive, no output directory holds an
\* artifact of the deleted source.
C15_DeleteRemovesArtifacts ==
    [][\A h \in Handlers :
          (/\ HandlingEnds(h, "deleted")
           /\ pipe[h].pc = "del_loop"
           /\ has_audio_extension(Handling(h).path))
             => \A o \in OutIdx : MadeFrom(Handling(h).path, outs'[o]) = {}]_vars


\* C16: a move event whose old path has an audio extension deletes the
\* artifacts of the old path before the pipeline runs on the new path:
\* while the pipeline of the handler is running, and when handling ends, no
\* output directory holds an artifact made from the old path.
C16_MoveDeletesOldArtifactsFirst ==
    [][\A h \in Handlers :
          (/\ Handling(h).kind = "moved"
           /\ has_audio_extension(Handling(h).path)
           /\ ~GuardCondition
           /\ HandlingEnds(h, "moved") \/ InPipeline(h))
             => \A o \in OutIdx : MadeFrom(Handling(h).path, outs'[o]) = {}]_vars


\* every artifact that directory d holds is in directory e, unchanged
Keeps(d, e) ==
    \A m \in Artifacts(d) :
        d.files[m].kind \in {"enc", "copy"} =>
            m \in Names(e) /\ e.files[m] = d.files[m]

\* handler h returns from process_source_file after _process_outputs ran,
\* and no encoder run or rename has failed
PipelineRanToEnd(h) ==
    /\ pipe[h].pc = "finally"
    /\ pipe'[h].pc \in {"idle", "dead"}
    /\ faults' = 0

\* C17: while a create event for an audio path is handled, no step of the
\* handler rewrites or deletes an artifact that exists; and when the
\* pipeline of the handler has run to its end, every target for which the
\* resolver does not skip the source holds the artifact of the source.
C17_CreateFillsAndKeeps ==
    [][\A h \in Handlers :
          LET n == Handling(h).path
          IN  (/\ Handling(h).kind = "created"
               /\ has_audio_extension(n)
               /\ pipe'[h] # pipe[h])
                 => /\ \A o \in OutIdx : Keeps(outs[o], outs'[o])
                    /\ PipelineRanToEnd(h) =>
                          \A o \in OutIdx :
                              (IsLossy(n) /\ Outputs[o].codec = "alac" /\ LosslessOfSameStem(n))
                                 \/ OutName(n, o) \in Names(outs'[o])]_vars

\* the create event for X.flac has been handled: the target that had an
\* artifact of an earlier X.flac still has it, as it was; the target that
\* had none has the artifact made from the new file
C17_Witness ==
    /\ evq = <<>>
    /\ pipe[TheHandler].pc \in {"idle", "dead"}
    /\ pipe[TheHandler].raised
    /\ XFlac \in Names(src)
    /\ OutName(XFlac, 1) \in Names(outs[1])
    /\ outs[1].files[OutName(XFlac, 1)] = Content("enc", XFlac, 0)
    /\ OutName(XFlac, 2) \in Names(outs[2])
    /\ outs[2].files[OutName(XFlac, 2)] = Content("enc", XFlac, 1)


----------------------------------------------------------------------------
(* The Dispatch phase *)

\* every name a pass can enumerate
PassNames == UNION InitPassNames

\* C18: an exception raised while a source file is processed does not abort
\* the pass: every enumerated file that waits for a worker gets its pipeline
\* run, and the Dispatch phase is left for the second guard check, after
\* which the pass either sweeps or ends.
C18_DispatchSurvivesExceptions ==
    /\ \A f \in PassNames :
          (scan.pc = "dispatch" /\ f \in scan.pending)
             ~> (\E w \in Workers : pipe[w].pc = "enter" /\ pipe[w].path = f)
    /\ (scan.pc = "dispatch") ~> (scan.pc \in {"sweep", "idle"})

\* the pass enumerated two files, processing raised, and the pass has gone
\* on to its sweep
C18_Witness ==
    /\ scan.pc = "sweep"
    /\ Cardinality(scan.files) = 2
    /\ scan.pending = {}
    /\ \E w \in Workers : pipe[w].pc = "idle" /\ pipe[w].raised


----------------------------------------------------------------------------
(* Operations that fail partway *)

\* the files of directory d that are not temp files and hold what an
\* interrupted write left
HalfWritten(d) == {m \in Artifacts(d) : d.files[m].kind = "partial"}

\* C19: a reconciliation pass that runs to the end of its sweep, with no
\* operation failing during the pass, leaves no half-written file under an
\* artifact's name in any output directory, whatever an earlier interrupted
\* copy, rename or delete left there.
C19_PassRepairsHalfApplied ==
    [][(scan.pc = "sweep" /\ scan'.pc = "idle" /\ faults = 0)
          => \A o \in OutIdx : HalfWritten(outs'[o]) = {}]_vars


----------------------------------------------------------------------------
(* The encoder's retry *)

\* C20: one call of atomic_ffmpeg_encode invokes the external encoder at
\* most twice; the second invocation is started only after the first one
\* has failed; and when the second one has failed too, the call returns the
\* failure without another invocation.
C20_AtMostTwoInvocations ==
    [][\A p \in Pipes :
          /\ pipe'[p].runs <= 2
          /\ (pipe[p].pc = "enc_exit" /\ pipe'[p].pc = "enc_run")
                => pipe[p].runs = 1 /\ pipe[p].rc # 0
          /\ (pipe[p].pc = "enc_exit" /\ pipe[p].runs = 2 /\ pipe[p].rc # 0)
                => pipe'[p].pc = "enc_ret" /\ pipe'[p].rc # 0]_vars

\* the call has returned a failure after the encoder was invoked twice
C20_Witness ==
    \E p \in Pipes :
        /\ EncReturned(p)
        /\ pipe[p].runs = 2
        /\ pipe[p].rc # 0


----------------------------------------------------------------------------
(* The retry without artwork *)

\* the command has the optional mapping of the first video stream
MapsArtwork(cmd) ==
    \E i \in 1..(Len(cmd) - 1) : cmd[i] = "-map" /\ cmd[i + 1] = "0:v:0?"

\* the command selects a video codec
SelectsVideoCodec(cmd) ==
    \E i \in 1..Len(cmd) : cmd[i] = "-c:v"

\* thread p starts the second run of the encoder
Retries(p) ==
    /\ pipe[p].pc = "enc_exit"
    /\ pipe'[p].pc = "enc_run"

\* C21: the retry happens only when the first encode failed, the command
\* built from the target's options maps artwork, and the diagnostic output
\* holds one of the artwork error signatures; the retried command has
\* neither the optional video-stream mapping nor a video-codec selection.
C21_RetryOnlyForArtworkTargets ==
    [][\A p \in Pipes :
          Retries(p) =>
             /\ pipe[p].rc # 0
             /\ ~pipe[p].retried
             /\ MapsArtwork(pipe[p].cmd)
             /\ \E h \in artwork_error_hints : pipe[p].err = h
             /\ ~MapsArtwork(pipe'[p].cmd)
             /\ ~SelectsVideoCodec(pipe'[p].cmd)]_vars


----------------------------------------------------------------------------
(* The stability check *)

\* thread p starts a copy or a call of the encoder for its source
StartsCopyOrEncode(p) ==
    /\ pipe[p].pc = "po"
    /\ pipe'[p] # pipe[p]
    /\ pipe'[p].pc = "enc_prep" \/ outs' # outs

\* C22: a thread that processes a source for an event starts no copy and no
\* encode of it unless wait_for_stable, called for that source after the
\* event, returned true; a worker of the scanner's Dispatch phase never
\* calls wait_for_stable.
C22_StableBeforeEventProcessing ==
    [][\A p \in Pipes :
          /\ (StartsCopyOrEncode(p) /\ pipe[p].ev # "scan") => pipe[p].waited = "true"
          /\ p \in Workers => pipe'[p].waited = "none"]_vars

\* the handler of an event calls the encoder after wait_for_stable returned
\* true, and the scanner's worker has processed a file without the check
C22_Witness ==
    /\ pipe[TheHandler].pc = "enc_prep"
    /\ pipe[TheHandler].ev \in {"created", "modified", "moved"}
    /\ pipe[TheHandler].waited = "true"
    /\ \E o \in OutIdx : encs[o].calls > 0


----------------------------------------------------------------------------
(* The stability detector *)

\* wait_for_stable has returned to thread p
WaitReturned(p) == pipe[p].wait.pc = "done"

\* for how long the reads of the size had given the same value when the
\* last one was made
UnchangedFor(w) ==
    LET k == Len(w.obs)
        run == {i \in 1..k : \A j \in i..k : w.obs[j].size = w.obs[k].size}
        first == CHOOSE i \in run : \A j \in run : i <= j
    IN  w.obs[k].t - w.obs[first].t

\* thread p takes a step of wait_for_stable
WaitStep(p) == pipe'[p].wait # pipe[p].wait

\* C23: wait_for_stable terminates; when it returns true, the reads of the
\* size had given the same value for at least min_stable_secs; it returns
\* false when a read of the size fails, at the call or at any poll, and when
\* the timeout has elapsed before that.
C23_WaitForStable ==
    /\ <>(WaitReturned(TheHandler))
    /\ [](\A p \in Pipes :
            (WaitReturned(p) /\ pipe[p].wait.ret) =>
               /\ pipe[p].wait.obs # <<>>
               /\ UnchangedFor(pipe[p].wait) >= pipe[p].wait.min
               /\ pipe[p].wait.now - pipe[p].wait.start < pipe[p].wait.timeout)
    /\ [][\A p \in Pipes :
            LET w == pipe[p].wait
            IN  /\ (WaitStep(p) /\ w.pc \in {"call", "poll"} /\ ~Exists(src, pipe[p].path))
                      => WaitReturned(p)' /\ ~pipe'[p].wait.ret
                /\ (WaitStep(p) /\ w.pc = "loop" /\ w.now - w.start >= w.timeout)
                      => WaitReturned(p)' /\ ~pipe'[p].wait.ret]_vars

\* the size changed while the thread was waiting, then stayed as it was for
\* min_stable_secs, and wait_for_stable returned true
C23_Witness ==
    LET w == pipe[TheHandler].wait
    IN  /\ WaitReturned(TheHandler)
        /\ w.ret
        /\ w.min = MaxMinStable
        /\ \E i \in 1..Len(w.obs) : w.obs[i].size # w.obs[Len(w.obs)].size


----------------------------------------------------------------------------
(* The start of the program *)

\* the configuration is missing, names no source directory or one that does
\* not exist, or lists a target name or a target path twice
ConfigurationError ==
    \/ cfg.targets = <<>>
    \/ ~cfg.found
    \/ cfg.source_path = <<>>
    \/ ~IsDir(src)
    \/ \E i, j \in DOMAIN cfg.targets :
          i # j /\ (cfg.targets[i].name = cfg.targets[j].name
                      \/ cfg.targets[i].path = cfg.targets[j].path)

\* C24: when main starts with a configuration or validation error, it never
\* gets to its first pass and returns nothing but a non-zero status; and no
\* step main takes before its first pass creates a directory or writes or
\* deletes a file.
C24_ErrorExitsBeforeAnyMutation ==
    /\ [](  (scan.main = "load" /\ ConfigurationError)
          => [](/\ scan.main # "running"
                /\ scan.main = "returned" => scan.status # 0
                /\ \A o \in OutIdx : ~IsDir(outs[o])))
    /\ [][scan.main # "running" => (src' = src /\ outs' = outs)]_vars

\* main has returned a non-zero status for a configuration that lists one
\* target path twice; no output directory has been created
C24_Witness ==
    /\ scan.main = "returned"
    /\ scan.status # 0
    /\ cfg.found
    /\ cfg.source_path # <<>>
    /\ IsDir(src)
    /\ Len(cfg.targets) = 2
    /\ cfg.targets[1].name # cfg.targets[2].name
    /\ cfg.targets[1].path = cfg.targets[2].path
    /\ \A o \in OutIdx : ~IsDir(outs[o])


\* the first pass of the scanner has started
FirstPassStarted ==
    /\ scan.main = "running"
    /\ scan.pc # "idle" \/ scan.pass >= 1

\* C25: from the start of the first scanner pass on, no two configured
\* targets share a logical name or a destination directory, the paths being
\* those that main has normalized.
C25_TargetsStayDistinct ==
    FirstPassStarted =>
        \A i, j \in DOMAIN cfg.targets :
            i # j => /\ cfg.targets[i].name # cfg.targets[j].name
                     /\ cfg.targets[i].path # cfg.targets[j].path


----------------------------------------------------------------------------
(* Atomicity of the encode under concurrency *)

\* the file n of target o appears or changes in this step, other than by a
\* verbatim copy
ArtifactWritten(o, n) ==
    /\ n \in Artifacts(outs'[o])
    /\ n \in Names(outs[o]) => outs'[o].files[n] # outs[o].files[n]
    /\ outs'[o].files[n].kind # "copy"

\* thread p renames its temp file over its destination after its encoder
\* exited with status 0
RenamesCompleted(p) ==
    /\ pipe[p].pc = "enc_exit"
    /\ pipe[p].rc = 0
    /\ pipe'[p].pc = "enc_ret"
    /\ pipe'[p].rc = 0

\* C26: in every interleaving of the pool's workers, the handler thread and
\* the periodic pass, a destination is written only by the rename of a temp
\* file whose encode has completed successfully, and what the rename puts
\* there is a completed output: never that of an encode that is still
\* running or that failed.
C26_DestWrittenOnlyByCompletedRename ==
    [][\A o \in OutIdx : \A n \in Names(outs'[o]) :
          ArtifactWritten(o, n) =>
             /\ \E p \in Pipes : RenamesCompleted(p) /\ pipe[p].oi = o /\ pipe[p].dst = n
             /\ outs'[o].files[n].kind = "enc"]_vars


----------------------------------------------------------------------------
(* The in-progress set and the output directories *)

\* thread p takes a step that creates, replaces or deletes a file of an
\* output directory
MutatesOutputs(p) ==
    /\ pipe'[p] # pipe[p]
    /\ \E o \in OutIdx : outs'[o].files # outs[o].files

\* the positions of a thread between the first and the last target of its
\* source in _process_outputs
ProcessingTargets(p) ==
    pipe[p].pc \in {"po", "enc_prep", "enc_run", "enc_wait", "enc_exit", "enc_ret"}

\* C27: a thread creates, replaces or deletes a file of an output directory
\* only while the source path it works for is in the in-progress set, and
\* the path stays in the set until every target of the source has been
\* processed.
C27_MutationsHoldInProgress ==
    [][\A p \in Pipes :
          /\ MutatesOutputs(p) => pipe[p].path \in in_progress
          /\ ProcessingTargets(p) => pipe[p].path \in in_progress]_vars


----------------------------------------------------------------------------
(* The phases of a pass *)

\* the phases in the order of a pass: PurgeStaleTemp, ForcePurgeAll with the
\* test that makes it optional, the first GuardCheck with Enumerate,
\* Dispatch with the second GuardCheck at its end, OrphanSweep
PhaseOrder ==
    {<<"idle", "cleanup">>, <<"cleanup", "force">>,
     <<"force", "purge">>, <<"force", "enum">>,
     <<"purge", "purge">>, <<"purge", "enum">>,
     <<"enum", "dispatch">>, <<"enum", "idle">>,
     <<"dispatch", "dispatch">>, <<"dispatch", "sweep">>, <<"dispatch", "idle">>,
     <<"sweep", "sweep">>, <<"sweep", "idle">>}

\* the main thread or the pool takes a step of the pass
PassStep ==
    \/ scan'.pc # scan.pc
    \/ scan'.oi # scan.oi
    \/ scan'.pending # scan.pending

\* C28: a pass goes through its phases in the fixed order; the orphan sweep
\* starts only when every dispatched worker has finished and the second
\* guard check finds the guard inactive; when the first guard check finds
\* the guard active the pass ends with no source dispatched; and a source is
\* handed to a worker in the Dispatch phase alone.
C28_PhasesInOrder ==
    [][/\ PassStep => <<scan.pc, scan'.pc>> \in PhaseOrder
       /\ (scan.pc = "dispatch" /\ scan'.pc = "sweep") =>
             /\ scan.pending = {}
             /\ \A w \in Workers : pipe[w].pc = "idle"
             /\ ~GuardCondition
       /\ (scan.pc = "enum" /\ PassStep /\ GuardCondition) =>
             /\ scan'.pc = "idle"
             /\ scan'.pending = {}
       /\ \A w \in Workers :
             (pipe[w].pc = "idle" /\ pipe'[w].pc = "enter") => scan.pc = "dispatch"]_vars

\* the source volume went away while the workers were busy, and the pass has
\* ended after its second guard check without a sweep: the file without a
\* source is still there
C28_Witness ==
    /\ scan.pc = "idle"
    /\ scan.pass = 1
    /\ src.st = "missing"
    /\ \E o \in OutIdx : encs[o].ok > 0 /\ ZArtifact(o) \in Names(outs[o])



----------------------------------------------------------------------------
(* A process killed during an encode *)

\* the threads that are waiting for their external encoder to exit
AwaitingEncoder == {p \in Pipes : pipe[p].pc = "enc_wait" /\ pipe[p].run}

\* the process ends in this step
Killed ==
    /\ AwaitingEncoder # {}
    /\ \A p \in Pipes : pipe'[p] = IdlePipe

\* a process started after the kill is at the end of its PurgeStaleTemp phase
PurgedAfterRestart ==
    /\ scan.pass = 0
    /\ scan.pc = "cleanup"
    /\ scan'.pc = "force"

\* what a kill during an encode leaves: the artifacts of the target as they
\* were, the destination as it was before the encode, and no other new file
\* than the temp file
KillLeavesOnlyTemp ==
    Killed =>
       \A p \in AwaitingEncoder :
          LET o == pipe[p].oi
              dst == pipe[p].dst
          IN  /\ Artifacts(outs'[o]) = Artifacts(outs[o])
              /\ \A n \in Artifacts(outs[o]) : outs'[o].files[n] = outs[o].files[n]
              /\ Names(outs'[o]) \ Artifacts(outs'[o]) \subseteq {TmpName(dst)}
              /\ IF dst \in Names(outs'[o])
                 THEN pipe[p].pre = {outs'[o].files[dst]}
                 ELSE pipe[p].pre = {}

\* C29 as stated: when the process is killed while an external encode is
\* running, the destination is as it was before the encode and nothing but
\* the temp-suffixed file is left of it; and once the next pass has gone
\* through its PurgeStaleTemp phase, whether or not the guard is active, no
\* temp-suffixed file is left in any output directory that exists.
C29_KillLeavesOnlyTempAndPassPurgesIt ==
    [][/\ KillLeavesOnlyTemp
       /\ PurgedAfterRestart =>
             \A o \in OutIdx : IsDir(outs'[o]) => TempFiles(outs'[o]) = {}]_vars

\* C29 amended: the same, for every output directory that the
\* PurgeStaleTemp phase can list and write; a directory that it cannot list
\* or write keeps its temp file, and the failure is logged.
C29_PassPurgesTempWhereItCan ==
    [][/\ KillLeavesOnlyTemp
       /\ PurgedAfterRestart =>
             \A o \in OutIdx : outs'[o].st = "rw" => TempFiles(outs'[o]) = {}]_vars

\* the process was killed during its encode and the source volume went
\* away; the pass of the new process, which the guard will stop, has removed
\* the temp file, and the destination holds what it held before
C29_Witness ==
    /\ scan.pass = 0
    /\ scan.pc = "force"
    /\ GuardCondition
    /\ \E o \in OutIdx :
          /\ encs[o].calls = 1
          /\ encs[o].ok = 0
          /\ TempFiles(outs[o]) = {}
          /\ OutName(XFlac, o) \in Names(outs[o])
          /\ outs[o].files[OutName(XFlac, o)] = OldContent


----------------------------------------------------------------------------
(* The guard check of the event handlers *)

\* C30: a handler thread creates, replaces or deletes a file of an output
\* directory only after it has, since its event arrived, evaluated the
\* safety guard and found it inactive; this for the four kinds of event and
\* for audio and sidecar paths alike.
C30_HandlersCheckGuardBeforeMutation ==
    [][\A h \in Handlers : MutatesOutputs(h) => pipe[h].clear]_vars


----------------------------------------------------------------------------
(* The periodic re-run heals a deleted artifact *)

\* target o is to hold an artifact of source file n: n is an audio file of
\* the source directory that the resolver does not skip for o
Wanted(n, o) ==
    /\ is_audio_file(n)
    /\ ~(is_mp3(n) /\ Outputs[o].codec = "alac" /\ _has_lossless_source(n))

\* the artifact of n is not in target o, the main loop sleeps and its
\* interval will elapse again, and no encode has failed
DeletedAndDue(n, o) ==
    /\ scan.pc = "idle"
    /\ scan.pass \in 1..(MaxPass - 1)
    /\ envLeft = 0
    /\ faults = 0
    /\ Wanted(n, o)
    /\ ~Exists(outs[o], OutName(n, o))

\* C31: when an artifact has been deleted by an external actor while its
\* source file exists, the periodic re-run of the pass eventually creates
\* the artifact again, unless the guard becomes active or an encode fails.
C31_RerunRecreatesDeletedArtifact ==
    \A o \in OutIdx : \A n \in PassNames :
        DeletedAndDue(n, o)
           ~> (Exists(outs[o], OutName(n, o)) \/ safety_guard_active \/ faults > 0)

\* the library is X.flac and Y.flac; the first pass left nothing but their
\* artifacts in the targets, one of which was then deleted by hand; the
\* second pass has ended, the guard is inactive, no encode failed, and
\* every target holds an artifact for every source file
C31_Witness ==
    /\ Names(src) = {XFlac, YFlac}
    /\ scan.pc = "idle"
    /\ scan.pass = MaxPass
    /\ envLeft = 0
    /\ faults = 0
    /\ ~safety_guard_active
    /\ ~cfg.force
    /\ \A o \in OutIdx : \A n \in Names(src) :
          Wanted(n, o) => Exists(outs[o], OutName(n, o))


----------------------------------------------------------------------------
(* One source per destination *)

\* thread p has resolved the destination of its source file in a target
\* and is in atomic_ffmpeg_encode for it
HasDestination(p) ==
    pipe[p].pc \in {"enc_prep", "enc_run", "enc_wait", "enc_exit", "enc_ret"}

\* C32: in a fixed target two distinct source files that are in the source
\* directory at the same time never resolve to the same destination path,
\* and so never to the same temp path: the destination a thread has
\* resolved for its source file is the destination of no other audio file
\* of the source directory.
C32_OneSourcePerDestination ==
    \A p \in Pipes :
        HasDestination(p) =>
            \A m \in SourceAudio \ {pipe[p].path} :
                /\ OutName(m, pipe[p].oi) # pipe[p].dst
                /\ TmpName(OutName(m, pipe[p].oi)) # TmpName(pipe[p].dst)


----------------------------------------------------------------------------
(* A modify event dropped for a pipeline in flight *)

\* nothing is left to do: no event waits, the main thread sleeps and every
\* thread has returned
Quiescent ==
    /\ evq = <<>>
    /\ scan.pc = "idle"
    /\ \A p \in Pipes : pipe[p].pc \in {"idle", "dead"}
    /\ in_progress = {}

\* the modify event of X.flac was handled and its own pipeline run was
\* dropped at the in-progress test
ModifyDropped ==
    /\ envLeft = 0
    /\ pipe[TheHandler].skipped

\* C33: after a modify event on a source whose pipeline was in progress, so
\* that the event's own run was dropped, once the system is quiescent every
\* artifact of that source holds the content the source had at the modify
\* event, not the content the pipeline in flight had read.
C33_DroppedModifyStillReflected ==
    (Quiescent /\ ModifyDropped /\ Exists(src, XFlac)) =>
        \A o \in OutIdx :
            Exists(outs[o], OutName(XFlac, o)) =>
                outs[o].files[OutName(XFlac, o)].ver = src.files[XFlac]


----------------------------------------------------------------------------
(* The orphan sweep and a source that arrives during the pass *)

\* a step of the orphan sweep of the pass
SweepStep == scan.pc = "sweep" /\ scan' # scan

\* the files target o loses in the step
Removed(o) == Names(outs[o]) \ Names(outs'[o])

\* C34: the orphan sweep of a pass never deletes an artifact whose source
\* file is in the source directory at the moment of the deletion, also when
\* the source was created, and its artifact made by the handler, after the
\* pass had enumerated the source directory.
C34_SweepSparesArtifactsOfPresentSources ==
    [][SweepStep =>
          \A o \in OutIdx : \A n \in Removed(o) :
              ~Exists(src, outs[o].files[n].from)]_vars


----------------------------------------------------------------------------
(* Events for directories and for files that are neither audio nor sidecar *)

\* name n carries neither a recognized audio extension nor a sidecar one
Unrecognized(n) == ~has_audio_extension(n) /\ ~has_sidecar_extension(n)

\* handler thread h is handling the event of a regular file whose path, and
\* whose new path when the event is a move, is unrecognized
HandlesUnrecognized(h) ==
    /\ pipe[h].pc \notin {"idle", "dead"}
    /\ pipe[h].ev \in {"created", "modified", "moved", "deleted"}
    /\ Unrecognized(pipe[h].old)
    /\ pipe[h].ev = "moved" => Unrecognized(pipe[h].to)

\* C35: an event for a directory, or for a regular file that has neither a
\* recognized audio extension nor a sidecar extension, creates and deletes
\* no file in any output directory, whichever of the four kinds it is: the
\* handler returns from a directory event at once, and no step of the
\* handling of an unrecognized file changes an output directory.
C35_IgnoredEventsLeaveOutputs ==
    [][\A h \in Handlers :
          /\ (evq # <<>> /\ Head(evq).isdir /\ pipe'[h] # pipe[h])
                => (pipe'[h].pc = "idle" /\ outs' = outs)
          /\ HandlesUnrecognized(h) => ~MutatesOutputs(h)]_vars


----------------------------------------------------------------------------
(* PurgeStaleTemp and an encode in flight *)

\* thread p is in atomic_ffmpeg_encode with an encoder that has opened its
\* output at the temp path and has not been settled yet
EncodeInFlight(p) ==
    /\ pipe[p].pc \in {"enc_wait", "enc_exit"}
    /\ pipe[p].run

\* the step is the PurgeStaleTemp phase of a pass
PurgeStaleTempStep == scan.pc = "cleanup" /\ scan'.pc # "cleanup"

\* C36: the PurgeStaleTemp phase of a pass never removes the temp file of an
\* encode that a handler thread has in flight at that moment, so that an
\* encode the external tool completes can be renamed over its destination.
C36_PurgeSparesTempInFlight ==
    [][PurgeStaleTempStep =>
          \A h \in Handlers :
              (EncodeInFlight(h) /\ Exists(outs[pipe[h].oi], TmpName(pipe[h].dst)))
                 => Exists(outs'[pipe[h].oi], TmpName(pipe[h].dst))]_vars


----------------------------------------------------------------------------
(* The orphan sweep of a pass that enumerated nothing *)

\* C37: a pass never sweeps with an empty enumerated source set: when the
\* source directory held no recognized audio file at the enumeration (only
\* entries that are not audio, so that the guard is inactive), no step of
\* the sweep deletes a file from an output directory.
C37_NoSweepOnEmptyEnumeration ==
    [][(SweepStep /\ scan.files = {}) => \A o \in OutIdx : Removed(o) = {}]_vars


----------------------------------------------------------------------------
(* ForcePurgeAll *)

\* the pass ends in this step: initial_sync returns
PassEnds == scan.pc # "idle" /\ scan'.pc = "idle"

\* C38: with force-reencode configured and the guard inactive when a pass
\* starts, the pass ends, if no encode and no copy failed, with an artifact
\* in every target for every audio file of the source directory, whatever
\* the bulk-empty flag: the purge never leaves the outputs purged and
\* unfilled.
C38_ForcePurgeRefills ==
    [][(PassEnds /\ cfg.force /\ ~scan.blocked /\ faults' = 0) =>
          \A o \in OutIdx : \A n \in SourceAudio :
              Wanted(n, o) => Exists(outs'[o], OutName(n, o))]_vars


----------------------------------------------------------------------------
(* The resolver's and the sweep's test for a lossless source *)

\* the copied MP3s that target o loses in the step and whose source file is
\* in the source directory
SweptCopies(o) ==
    {n \in Removed(o) :
        /\ outs[o].files[n].kind = "copy"
        /\ is_mp3(outs[o].files[n].from)
        /\ Exists(src, outs[o].files[n].from)}

\* C39: the sweep's test for a stem with a lossless source agrees with the
\* resolver's test for a lossless source of the same stem, upper-case
\* extensions included: when the sweep deletes the copy of an MP3 that is
\* in the source directory, the resolver skips that MP3, so that the next
\* pass over the same source state does not copy it again.
C39_SweepAndResolverAgree ==
    [][SweepStep =>
          \A o \in OutIdx : \A n \in SweptCopies(o) :
              _has_lossless_source(outs[o].files[n].from)]_vars


----------------------------------------------------------------------------
(* _remove_artwork_from_command *)

\* the positions at which an artwork option starts: -map before 0:v:0?, -c:v
\* and -vf
ArtworkOptionAt(cmd) ==
    {i \in 1..Len(cmd) :
        \/ cmd[i] = "-map" /\ i + 1 <= Len(cmd) /\ cmd[i + 1] = "0:v:0?"
        \/ cmd[i] = "-c:v"
        \/ cmd[i] = "-vf"}

\* the positions of the artwork options and of their values
ArtworkPositions(cmd) ==
    ArtworkOptionAt(cmd) \cup {i + 1 : i \in ArtworkOptionAt(cmd)}

\* cmd without the arguments at the positions in S, the others in their
\* order
Without(cmd, S) ==
    LET keep == (1..Len(cmd)) \ S
        at(k) == CHOOSE i \in keep : Cardinality({j \in keep : j <= i}) = k
    IN  [k \in 1..Cardinality(keep) |-> cmd[at(k)]]

\* the step is a call of _remove_artwork_from_command by thread p
Filters(p) == pipe[p].pc \in {"filter", "filtered"} /\ pipe'[p].pc # pipe[p].pc

\* C40: _remove_artwork_from_command returns its argument list without the
\* '-map 0:v:0?' pairs, the '-c:v <value>' pairs and the '-vf <value>'
\* pairs, every other argument kept and in its order; it returns a command
\* without such options unchanged; and applied to its own result it changes
\* nothing.
C40_RemovesExactlyArtworkOptions ==
    [][\A p \in Pipes :
          Filters(p) =>
             /\ pipe'[p].cmd = Without(pipe[p].cmd, ArtworkPositions(pipe[p].cmd))
             /\ ArtworkOptionAt(pipe[p].cmd) = {} => pipe'[p].cmd = pipe[p].cmd
             /\ pipe[p].pc = "filtered" => pipe'[p].cmd = pipe[p].cmd]_vars

====
